---- MODULE Spec2Model ----
(***************************************************************************)
(* Yemen energy analytics: the data explorer (site selector v2), the       *)
(* three-panel site selector prototype, and the legend / colour functions  *)
(* they are built on.                                                      *)
(*                                                                         *)
(* JavaScript values are tagged records: Null, Str(s), Num(n).  Colours    *)
(* are the CSS strings the code produces.  Indices are 0-based as in the   *)
(* code; TLA+ sequences are 1-based, so element i of a JS array a is       *)
(* a[i + 1].                                                               *)
(***************************************************************************)
EXTENDS Integers, Sequences, FiniteSets, TLC

(***************************************************************************)
(* Bounds of the model (not program constants).                            *)
(***************************************************************************)
MaxFeatures == 2      \* features of the largest sample point dataset
MaxPalettes == 2      \* palettes of each kind chosen in the behaviours
MaxDatasets == 4      \* point datasets switched to in the behaviours
MaxItems == 3         \* length of the exhaustively enumerated item lists
MaxKeys == 11         \* distinct keys of the long categorical item lists
MaxWeightEdits == 2   \* weight edits explored in the scoring behaviours
MaxFallbacks == 2     \* fallback elements counted before saturating

(***************************************************************************)
(* JavaScript values                                                       *)
(***************************************************************************)
Null == [t |-> "null"]
Str(s) == [t |-> "str", s |-> s]
Num(n) == [t |-> "num", n |-> n]

\* Number(string): the strings of the model that parse as a finite number.
NumericStrings == {"7"}
NumberOfString(s) == IF s = "7" THEN 7 ELSE 0

\* String(value) for a non-null value.
StringOf(value) == IF value.t = "str" THEN value.s ELSE ToString(value.n)

\* value === null || value === undefined || value === ""
IsBlank(value) == value.t = "null" \/ (value.t = "str" /\ value.s = "")

toNumber(value) ==
  IF IsBlank(value) THEN Null
  ELSE IF value.t = "num" THEN value
  ELSE IF value.s \in NumericStrings THEN Num(NumberOfString(value.s))
  ELSE Null

(***************************************************************************)
(* Palettes                                                                *)
(***************************************************************************)
CATEGORY_COLORS ==
  << "#5b63f4", "#22d3ee", "#34d399", "#facc15", "#f97316",
     "#f472b6", "#14b8a6", "#ef4444", "#a855f7", "#0ea5e9" >>

COLOR_MAPS ==
  [ continuous |->
      << [id |-> "blue-red", start |-> <<91, 99, 244>>, end |-> <<239, 68, 68>>],
         [id |-> "viridis", start |-> <<68, 1, 84>>, end |-> <<253, 231, 37>>],
         [id |-> "plasma", start |-> <<13, 8, 135>>, end |-> <<240, 249, 33>>],
         [id |-> "green-blue", start |-> <<34, 211, 153>>, end |-> <<14, 165, 233>>],
         [id |-> "purple-orange", start |-> <<168, 85, 247>>, end |-> <<249, 115, 22>>] >>,
    categorical |->
      << [id |-> "default", colors |-> CATEGORY_COLORS],
         [id |-> "pastel", colors |->
            << "#a8e6cf", "#ffd3b6", "#ffaaa5", "#ff8b94",
               "#c7ceea", "#b4a7d6", "#dda0dd", "#98d8c8" >>],
         [id |-> "bright", colors |->
            << "#ff6b6b", "#4ecdc4", "#45b7d1", "#f9ca24",
               "#f0932b", "#eb4d4b", "#6c5ce7", "#a29bfe" >>],
         [id |-> "earth", colors |->
            << "#8b4513", "#cd853f", "#daa520", "#b8860b",
               "#9acd32", "#6b8e23", "#556b2f", "#2f4f2f" >>] >> ]

MissingGray == "#94a3b8"
NoLegendColor == "#000000"

\* maps.find(m => m.id === id) || maps[0]
FindMap(maps, id) ==
  IF \E i \in 1..Len(maps) : maps[i].id = id
  THEN maps[CHOOSE i \in 1..Len(maps) :
              /\ maps[i].id = id
              /\ \A j \in 1..(i - 1) : maps[j].id # id]
  ELSE maps[1]

HasMap(maps, id) == \E i \in 1..Len(maps) : maps[i].id = id

(***************************************************************************)
(* Legend engine                                                           *)
(***************************************************************************)
NullLegend == [type |-> "null"]
NullVariable == [type |-> "null"]

\* The key of a raw value in a categorical legend.
KeyOf(value) == IF IsBlank(value) THEN "Unknown" ELSE StringOf(value)

\* categories.findIndex(c => c.value === key), 0-based, -1 when absent.
FindIndex(categories, key) ==
  IF \E i \in 1..Len(categories) : categories[i].value = key
  THEN (CHOOSE i \in 1..Len(categories) :
          /\ categories[i].value = key
          /\ \A j \in 1..(i - 1) : categories[j].value # key) - 1
  ELSE -1

\* register without the cap on the number of entries
registerUncapped(value, colors, categories) ==
  LET key == KeyOf(value) IN
  IF FindIndex(categories, key) >= 0
  THEN categories
  ELSE Append(categories,
              [value |-> key, color |-> colors[(Len(categories) % Len(colors)) + 1]])

register(value, colors, categories) ==
  LET key == KeyOf(value) IN
  IF FindIndex(categories, key) >= 0 \/ Len(categories) >= Len(colors)
  THEN categories
  ELSE Append(categories,
              [value |-> key, color |-> colors[(Len(categories) % Len(colors)) + 1]])

RECURSIVE RegisterAll(_, _, _)
RegisterAll(values, colors, categories) ==
  IF values = << >> THEN categories
  ELSE RegisterAll(Tail(values), colors, register(Head(values), colors, categories))

\* Object.fromEntries(categories.map(entry => [entry.value, entry.color]))
ColorMapOf(categories) ==
  [key \in {categories[i].value : i \in 1..Len(categories)} |->
     categories[FindIndex(categories, key) + 1].color]

CategoricalLegend(categories) ==
  [type |-> "categorical", categories |-> categories, colorMap |-> ColorMapOf(categories)]

\* feature?.properties?.[id]
PropertyOf(feature, id) ==
  IF id \in DOMAIN feature.properties THEN feature.properties[id] ELSE Null

RawValues(features, id) == [i \in 1..Len(features) |-> PropertyOf(features[i], id)]

\* The numeric values of a list of raw values, in order.
RECURSIVE Numbers(_)
Numbers(values) ==
  IF values = << >> THEN << >>
  ELSE LET n == toNumber(Head(values)) IN
       IF n = Null THEN Numbers(Tail(values)) ELSE <<n.n>> \o Numbers(Tail(values))

SeqMin(s) == CHOOSE x \in {s[i] : i \in 1..Len(s)} : \A i \in 1..Len(s) : x <= s[i]
SeqMax(s) == CHOOSE x \in {s[i] : i \in 1..Len(s)} : \A i \in 1..Len(s) : x >= s[i]

computeLegendData(features, variable, colorMapId) ==
  IF variable = NullVariable THEN NullLegend
  ELSE IF variable.type = "categorical" THEN
    LET colors == FindMap(COLOR_MAPS.categorical, colorMapId).colors
        found == RegisterAll(RawValues(features, variable.id), colors, << >>)
        categories == IF Len(found) = 0 THEN register(Str("Unknown"), colors, found)
                      ELSE found
    IN CategoricalLegend(categories)
  ELSE
    LET nums == Numbers(RawValues(features, variable.id)) IN
    IF nums = << >> THEN NullLegend
    ELSE LET min == SeqMin(nums)
             max == SeqMax(nums)
         IN [type |-> "numeric", min |-> min, max |-> IF min = max THEN min + 1 ELSE max]

(***************************************************************************)
(* Colour resolver                                                         *)
(***************************************************************************)
\* Math.round(n / d) for d > 0: the nearest integer, halves rounded up.
RoundDiv(n, d) == (2 * n + d) \div (2 * d)

\* interpolateColor without the clamp of t to [0, 1]
interpolateColorUnclamped(num, den, colorMap) ==
  LET channel(index) ==
        RoundDiv(colorMap.start[index] * den
                   + (colorMap.end[index] - colorMap.start[index]) * num, den)
  IN "rgb(" \o ToString(channel(1)) \o ", " \o ToString(channel(2))
            \o ", " \o ToString(channel(3)) \o ")"

\* t is the fraction num / den with den > 0.
interpolateColor(num, den, colorMap) ==
  LET cnum == IF num < 0 THEN 0 ELSE IF num > den THEN den ELSE num
      channel(index) ==
        RoundDiv(colorMap.start[index] * den
                   + (colorMap.end[index] - colorMap.start[index]) * cnum, den)
  IN "rgb(" \o ToString(channel(1)) \o ", " \o ToString(channel(2))
            \o ", " \o ToString(channel(3)) \o ")"

\* colorForValue returning the missing-value gray for null under every legend
colorForValueNullGray(value, legend, colorMapId) ==
  IF legend = NullLegend THEN NoLegendColor
  ELSE IF value = Null THEN MissingGray
  ELSE IF legend.type = "numeric" THEN
    interpolateColor(value.n - legend.min, legend.max - legend.min,
                     FindMap(COLOR_MAPS.continuous, colorMapId))
  ELSE
    LET key == KeyOf(value)
        map == FindMap(COLOR_MAPS.categorical, colorMapId)
        colorIndex == FindIndex(legend.categories, key)
    IN IF colorIndex >= 0
       THEN map.colors[(colorIndex % Len(map.colors)) + 1]
       ELSE IF key \in DOMAIN legend.colorMap THEN legend.colorMap[key]
       ELSE MissingGray

colorForValue(value, legend, colorMapId) ==
  IF legend = NullLegend THEN NoLegendColor
  ELSE IF legend.type = "numeric" THEN
    IF value = Null THEN MissingGray
    ELSE interpolateColor(value.n - legend.min, legend.max - legend.min,
                          FindMap(COLOR_MAPS.continuous, colorMapId))
  ELSE
    LET key == KeyOf(value)
        map == FindMap(COLOR_MAPS.categorical, colorMapId)
        colorIndex == FindIndex(legend.categories, key)
    IN IF colorIndex >= 0
       THEN map.colors[(colorIndex % Len(map.colors)) + 1]
       ELSE IF key \in DOMAIN legend.colorMap THEN legend.colorMap[key]
       ELSE MissingGray

(***************************************************************************)
(* Dataset registry (the catalogue the page embeds) and sample data        *)
(***************************************************************************)
datasetIds == << "yeeap", "tamkeen", "pilot_minigrid", "health", "education" >>

DatasetIdSet == {datasetIds[i] : i \in 1..Len(datasetIds)}

NumericField(id, label, min, max) ==
  [id |-> id, label |-> label, type |-> "numeric", min |-> Num(min), max |-> Num(max)]

CategoricalField(id, label) ==
  [id |-> id, label |-> label, type |-> "categorical", min |-> Null, max |-> Null]

SITE_DATASETS ==
  [ yeeap |->
      [label |-> "YEEAP installations",
       color_fields |->
         << NumericField("pv_system_kwp", "PV capacity (kWp)", 0, 75),
            NumericField("total_beneficiaries", "Total beneficiaries", 0, 12500),
            CategoricalField("is_completed", "Completion status"),
            CategoricalField("category_level_1", "Category") >>],
    tamkeen |->
      [label |-> "Tamkeen projects",
       color_fields |-> << CategoricalField("Status", "Status") >>],
    pilot_minigrid |->
      [label |-> "Pilot mini-grids",
       color_fields |->
         << NumericField("Estimated  Population", "Estimated population", 0, 20000),
            CategoricalField("Ownership", "Ownership") >>],
    health |->
      [label |-> "Health facilities",
       color_fields |->
         << CategoricalField("amenity", "Amenity type"),
            CategoricalField("healthcare", "Healthcare type") >>],
    education |->
      [label |-> "Education facilities",
       color_fields |-> << CategoricalField("amenity", "Amenity type") >>] ]

\* The features the loader returns for each dataset: sample data of bounded
\* size.  tamkeen stands for a dataset whose file is absent (no features),
\* pilot_minigrid for a dataset with a single feature.
SampleSize ==
  [ yeeap |-> MaxFeatures, tamkeen |-> 0, pilot_minigrid |-> 1,
    health |-> MaxFeatures, education |-> 1 ]

SampleProperties(dataset, i) ==
  CASE dataset = "yeeap" ->
         [ pv_system_kwp |-> Num(5 * (i - 1)),
           total_beneficiaries |-> Str("n/a"),
           is_completed |-> Str(IF i % 2 = 1 THEN "Completed" ELSE "In progress"),
           category_level_1 |-> IF i = 2 THEN Null ELSE Str("Health") ]
    [] dataset = "pilot_minigrid" ->
         [ Ownership |-> Str("Community") ] @@ ("Estimated  Population" :> Num(1200))
    [] dataset = "health" ->
         [ amenity |-> Str(IF i = 1 THEN "hospital" ELSE "clinic"),
           healthcare |-> IF i = 1 THEN Str("") ELSE Null ]
    [] dataset = "education" ->
         [ amenity |-> Str("school") ]
    [] OTHER -> [ Status |-> Str("Planned") ]

SITE_FEATURES ==
  [ dataset \in DatasetIdSet |->
      [ i \in 1..SampleSize[dataset] |->
          [ lat |-> i, lon |-> i, properties |-> SampleProperties(dataset, i) ] ] ]

\* Grid layers as the loader builds them: every variable is numeric and
\* carries the column's minimum and maximum.
GridVariable(id, label, min, max) ==
  [id |-> id, label |-> label, type |-> "numeric", min |-> Num(min), max |-> Num(max)]

\* load is the page load: the input data set on disk (data), how far the
\* load has come (stage: "start", "loaded" after the Python loaders, "ready"
\* after the page script, "failed" when either raised), and whether the last
\* step or handler raised.
VARIABLE load

\* host is the Streamlit host application of the data explorer: the
\* configured password, the session state (authenticated, the password
\* widget, the cached JSON strings), the memo of the cached page function,
\* the widget inputs and the output of the last script run, and how often
\* each loader was called in the session.
VARIABLE host

\* The input data sets: complete data (one site file absent), the grid
\* geometry file absent, no grid file with an h3_05 column, and a grid file
\* (the first or the last) none of whose columns coerces to numbers.
DataSets == {"complete", "noGeometry", "noLayers", "emptyFirstLayer", "emptyLastLayer"}

ClimateVariables ==
  << GridVariable("worldpop2023_sum", "WorldPop 2023 population", 0, 9),
     GridVariable("adj_at_least_one", "Population exposed to >=1 hazard", -2, 4),
     GridVariable("elevation_change", "Elevation Change", -3, -1) >>

PtiVariables == << GridVariable("population_score", "Population score", 2, 2) >>

GRID_LAYERS ==
  IF load.data = "noLayers" THEN << >>
  ELSE
    << [id |-> "climate", name |-> "Climate hazard exposure",
        variables |-> IF load.data = "emptyFirstLayer" THEN << >> ELSE ClimateVariables],
       [id |-> "pti_scores", name |-> "PTI scores",
        variables |-> IF load.data = "emptyLastLayer" THEN << >> ELSE PtiVariables] >>

\* The cells of the grid geometry.
GridCells == << "c1", "c2", "c3" >>

\* The order in which cell ids are inserted into a values map.
CellOrder == [i \in 1..(MaxKeys + 2) |-> "c" \o ToString(i)]

\* The values map of a layer holds its numeric columns; it is empty for a
\* layer without variables.
GRID_VALUES ==
  [ climate |->
      IF load.data = "emptyFirstLayer" THEN << >>
      ELSE [ c1 |-> [worldpop2023_sum |-> Num(0), adj_at_least_one |-> Num(-2),
                     elevation_change |-> Num(-3)],
             c2 |-> [worldpop2023_sum |-> Num(9), adj_at_least_one |-> Num(4),
                     elevation_change |-> Num(-1)] ],
    pti_scores |->
      IF load.data = "emptyLastLayer" THEN << >>
      ELSE [ c1 |-> [population_score |-> Num(2)],
             c2 |-> [population_score |-> Null],
             c3 |-> [population_score |-> Num(2)] ] ]

PTI_SCORES ==
  << "population_score", "displacement_score", "climate_score", "conflict_score",
     "food_nutrition_security_score", "access_services_score",
     "economic_activity_score" >>

PtiIds == {PTI_SCORES[i] : i \in 1..Len(PTI_SCORES)}

(***************************************************************************)
(* Number formatting and the log transform                                 *)
(***************************************************************************)
Dash == "--"          \* the em dash the page prints for a missing value

Pad3(n) == IF n < 10 THEN "00" \o ToString(n)
           ELSE IF n < 100 THEN "0" \o ToString(n) ELSE ToString(n)

\* Intl.NumberFormat("en-US") of an integer below one million.
FormatInt(n) ==
  LET a == IF n < 0 THEN -n ELSE n
      digits == IF a < 1000 THEN ToString(a)
                ELSE ToString(a \div 1000) \o "," \o Pad3(a % 1000)
  IN IF n < 0 THEN "-" \o digits ELSE digits

formatLegendValue(value) == IF value = Null THEN Dash ELSE FormatInt(value.n)

\* Colour-space numbers of the grid legend are fixed-point, in thousandths.
Milli == 1000

ToMilli(x) == x * Milli

\* round(1000 * ln(k)) for k = 1..16
LnTable ==
  << 0, 693, 1099, 1386, 1609, 1792, 1946, 2079,
     2197, 2303, 2398, 2485, 2565, 2639, 2708, 2773 >>

\* Math.log(1 + x) in thousandths, or Null for a negative or missing value.
applyLogScale(value) ==
  LET numValue == toNumber(value) IN
  IF numValue = Null THEN Null
  ELSE IF numValue.n < 0 THEN Null
  ELSE Num(LnTable[1 + numValue.n])

\* The rows of a values map in insertion order (Object.values).
RowsOf(valuesMap) ==
  LET present == SelectSeq(CellOrder, LAMBDA c : c \in DOMAIN valuesMap)
  IN [i \in 1..Len(present) |-> valuesMap[present[i]]]

RowValue(row, id) == IF id \in DOMAIN row THEN row[id] ELSE Null

\* The colour-space value of an original value.
GridColorValue(originalValue, useLogScale) ==
  IF originalValue = Null THEN Null
  ELSE IF useLogScale THEN applyLogScale(originalValue)
  ELSE Num(ToMilli(originalValue.n))

RECURSIVE ColorNumbers(_, _)
ColorNumbers(nums, useLogScale) ==
  IF nums = << >> THEN << >>
  ELSE LET v == GridColorValue(Num(Head(nums)), useLogScale) IN
       IF v = Null THEN ColorNumbers(Tail(nums), useLogScale)
       ELSE <<v.n>> \o ColorNumbers(Tail(nums), useLogScale)

computeLegendDataFromGrid(valuesMap, variable, useLogScale) ==
  IF variable = NullVariable THEN NullLegend
  ELSE IF variable.type = "categorical" THEN
    LET rows == RowsOf(valuesMap)
        raw == [i \in 1..Len(rows) |-> RowValue(rows[i], variable.id)]
        found == RegisterAll(raw, CATEGORY_COLORS, << >>)
        categories == IF Len(found) = 0
                      THEN <<[value |-> "Unknown", color |-> CATEGORY_COLORS[1]]>>
                      ELSE found
    IN CategoricalLegend(categories)
  ELSE
    LET rows == RowsOf(valuesMap)
        originals == Numbers([i \in 1..Len(rows) |-> RowValue(rows[i], variable.id)])
        colors == ColorNumbers(originals, useLogScale)
        metaMin == toNumber(variable.min)
        metaMax == toNumber(variable.max)
        fromData == colors # << >>
        min0 == IF fromData THEN Num(SeqMin(colors))
                ELSE GridColorValue(metaMin, useLogScale)
        max0 == IF fromData THEN Num(SeqMax(colors))
                ELSE GridColorValue(metaMax, useLogScale)
        originalMin == IF fromData THEN Num(SeqMin(originals)) ELSE metaMin
        originalMax == IF fromData THEN Num(SeqMax(originals)) ELSE metaMax
    IN IF min0 = Null \/ max0 = Null THEN NullLegend
       ELSE [type |-> "numeric",
             min |-> min0.n,
             max |-> IF min0.n = max0.n THEN min0.n + Milli ELSE max0.n,
             originalMin |-> originalMin,
             originalMax |-> originalMax,
             useLogScale |-> useLogScale]

(***************************************************************************)
(* The data explorer page (site selector v2)                               *)
(*                                                                         *)
(* state is the page's view-state object; the other variables are the      *)
(* page's globals and the panels it renders into.  leaflet tells whether   *)
(* the map library loaded (typeof L !== "undefined"); it is fixed for the  *)
(* session.  lastTrigger and effects record which handler ran last and     *)
(* which rendering calls it made.  component tells which of the two        *)
(* selector pages the session shows; react is the state of the three-panel *)
(* prototype.  calc holds the inputs and results of the legend engine and  *)
(* the colour resolver when they are exercised on their own.               *)
(***************************************************************************)
VARIABLES state, map, markersLayer, gridOverlayLayer, mapLegend, mapGridLegend,
          gridLegend, detail, scoreSummary, camera, fallbacks, GRID_GEOMETRY,
          weightEdits, leaflet, lastTrigger, effects, component, react, calc

v2vars == << state, map, markersLayer, gridOverlayLayer, mapLegend, mapGridLegend,
             gridLegend, detail, scoreSummary, camera, fallbacks, GRID_GEOMETRY,
             weightEdits, load, host >>

vars == << state, map, markersLayer, gridOverlayLayer, mapLegend, mapGridLegend,
           gridLegend, detail, scoreSummary, camera, fallbacks, GRID_GEOMETRY,
           weightEdits, leaflet, lastTrigger, effects, component, react, calc, load,
           host >>

Undefined == [t |-> "undefined"]
NoLayer == [kind |-> "none"]
NoCamera == [kind |-> "none"]
HiddenPanel == [hidden |-> TRUE]
NoneId == "__none__"

\* The page's globals and panels as one record, threaded through the calls
\* of a handler in program order.
Env ==
  [ state |-> state, map |-> map, markersLayer |-> markersLayer,
    gridOverlayLayer |-> gridOverlayLayer, mapLegend |-> mapLegend,
    mapGridLegend |-> mapGridLegend, gridLegend |-> gridLegend, detail |-> detail,
    scoreSummary |-> scoreSummary, camera |-> camera, fallbacks |-> fallbacks,
    GRID_GEOMETRY |-> GRID_GEOMETRY, effects |-> {}, raised |-> FALSE ]

\* An uncaught exception: the rest of the handler does not run.
Raise(e) == [e EXCEPT !.raised = TRUE]

Did(e, effect) == [e EXCEPT !.effects = @ \cup {effect}]

\* F(v), with v evaluated once: one statement of a handler followed by the rest.
Bind(v, F(_)) == CHOOSE r \in {F(x) : x \in {v}} : TRUE

getActiveDataset(s) == SITE_DATASETS[s.siteDataset]

\* fields.find(field => field.id === id) ?? null
FindField(fields, id) ==
  IF \E i \in 1..Len(fields) : fields[i].id = id
  THEN fields[CHOOSE i \in 1..Len(fields) :
                /\ fields[i].id = id
                /\ \A j \in 1..(i - 1) : fields[j].id # id]
  ELSE NullVariable

getActiveSiteVariable(s) ==
  IF s.siteVariable = NoneId THEN NullVariable
  ELSE FindField(getActiveDataset(s).color_fields, s.siteVariable)

getFeatureValue(feature, variable) ==
  IF variable = NullVariable THEN Null
  ELSE LET raw == PropertyOf(feature, variable.id) IN
       IF IsBlank(raw) THEN Null
       ELSE IF variable.type = "numeric" THEN toNumber(raw)
       ELSE Str(StringOf(raw))

\* the palette options rebuilt without replacing a palette of the other kind
updateColorMapOptionsKeepsPalette(e0, variable) ==
  Bind(e0, LAMBDA e :
    IF variable = NullVariable THEN e
    ELSE Did(e, "colorMapOptions"))

updateColorMapOptions(e0, variable) ==
  Bind(e0, LAMBDA e :
    IF variable = NullVariable THEN e
    ELSE LET maps == IF variable.type = "categorical" THEN COLOR_MAPS.categorical
                     ELSE COLOR_MAPS.continuous
         IN Did(IF ~HasMap(maps, e.state.colorMap)
                THEN [e EXCEPT !.state.colorMap = maps[1].id]
                ELSE e, "colorMapOptions"))

\* the colour-field options rebuilt without resetting a field the dataset lacks
updateSiteVariablesKeepsField(e0) ==
  Bind(e0, LAMBDA e :
    updateColorMapOptions(Did(e, "siteVariableOptions"), getActiveSiteVariable(e.state)))

updateSiteVariables(e0) ==
  Bind(e0, LAMBDA e :
    LET dataset == getActiveDataset(e.state) IN
    Bind(IF \/ e.state.siteVariable = NoneId
            \/ FindField(dataset.color_fields, e.state.siteVariable) = NullVariable
         THEN [e EXCEPT !.state.siteVariable = NoneId]
         ELSE e,
         LAMBDA e1 :
           updateColorMapOptions(Did(e1, "siteVariableOptions"),
                                 getActiveSiteVariable(e1.state))))

\* The site legend panel as updateLegend renders it.
LegendPanel(datasetLabel, legend, variable, colorMapId) ==
  [ hidden |-> FALSE,
    dataset |-> datasetLabel,
    variable |-> IF variable = NullVariable THEN "None" ELSE variable.label,
    body |->
      IF legend = NullLegend \/ variable = NullVariable
      THEN [kind |-> "No color mapping"]
      ELSE IF legend.type = "numeric"
      THEN LET m == FindMap(COLOR_MAPS.continuous, colorMapId) IN
           [kind |-> "gradient", start |-> m.start, end |-> m.end,
            min |-> formatLegendValue(Num(legend.min)),
            max |-> formatLegendValue(Num(legend.max))]
      ELSE [kind |-> "items", items |-> legend.categories] ]

updateLegend(e0, legend, variable, colorMapId) ==
  Bind(e0, LAMBDA e :
    Did([e EXCEPT !.mapLegend =
           LegendPanel(getActiveDataset(e.state).label, legend, variable, colorMapId)],
        "siteLegend"))

updateGridLegendPanel(e0, legend, layerMeta, variable) ==
  Bind(e0, LAMBDA e :
  Did([e EXCEPT !.mapGridLegend =
         IF legend = NullLegend \/ variable = NullVariable \/ ~e.state.showGrid
         THEN HiddenPanel
         ELSE [ hidden |-> FALSE,
                dataset |-> layerMeta.name,
                variable |-> variable.label,
                body |->
                  IF legend.type = "numeric"
                  THEN [kind |-> "gradient",
                        min |-> formatLegendValue(legend.originalMin),
                        max |-> formatLegendValue(legend.originalMax)]
                  ELSE [kind |-> "items", items |-> legend.categories] ]],
      "gridLegend"))

Saturate(n) == IF n > MaxFallbacks THEN MaxFallbacks ELSE n

DefaultView == [kind |-> "setView", of |-> "Yemen", zoom |-> 6]

ensureMap(e0) ==
  Bind(e0, LAMBDA e :
    IF e.map \/ ~leaflet
    THEN IF ~e.map /\ ~leaflet
         THEN Did([e EXCEPT !.fallbacks = Saturate(@ + 1)], "fallback")
         ELSE e
    ELSE Did([e EXCEPT !.map = TRUE, !.camera = DefaultView, !.markersLayer = << >>],
             "createMap"))

FindLayer(id) ==
  IF \E i \in 1..Len(GRID_LAYERS) : GRID_LAYERS[i].id = id
  THEN GRID_LAYERS[CHOOSE i \in 1..Len(GRID_LAYERS) : GRID_LAYERS[i].id = id]
  ELSE [id |-> NoneId, name |-> "", variables |-> << >>]

ValuesMapOf(layerId) ==
  IF layerId \in DOMAIN GRID_VALUES THEN GRID_VALUES[layerId] ELSE << >>

\* The style callback of the overlay: the fill of one cell.
CellStyle(cell, valuesMap, variable, legendData, useLogScale) ==
  LET row == IF cell \in DOMAIN valuesMap THEN valuesMap[cell] ELSE << >>
      originalValue == RowValue(row, variable.id)
      value == GridColorValue(originalValue, useLogScale)
  IN [ fillColor |-> colorForValue(value, legendData, "undefined"),
       fillOpacity |-> IF value = Null THEN 0 ELSE 65 ]

\* The properties the style callback writes into the geometry features.
\* a style callback that also overwrites the cell key
StyledGeometryRekeyed(geometry, valuesMap, variable) ==
  [ cell \in DOMAIN geometry |->
      LET row == IF cell \in DOMAIN valuesMap THEN valuesMap[cell] ELSE << >>
      IN [geometry[cell] EXCEPT !.h3_05 = variable.id,
                                !._originalValue = RowValue(row, variable.id),
                                !._variableLabel = Str(variable.label)] ]

StyledGeometry(geometry, valuesMap, variable) ==
  [ cell \in DOMAIN geometry |->
      LET row == IF cell \in DOMAIN valuesMap THEN valuesMap[cell] ELSE << >>
      IN [geometry[cell] EXCEPT !._originalValue = RowValue(row, variable.id),
                                !._variableLabel = Str(variable.label)] ]

renderGridOverlay(e0) ==
  Bind(ensureMap(e0), LAMBDA e1 :
    IF ~e1.map THEN e1
    ELSE
      Bind(IF e1.gridOverlayLayer # NoLayer
           THEN Did([e1 EXCEPT !.gridOverlayLayer = NoLayer], "removeGridOverlay")
           ELSE e1,
           LAMBDA e2 :
        LET layerMeta == FindLayer(e2.state.gridLayer)
            found == FindField(layerMeta.variables, e2.state.gridVariable)
            variable == IF found # NullVariable THEN found
                        ELSE IF Len(layerMeta.variables) > 0 THEN layerMeta.variables[1]
                        ELSE NullVariable
            valuesMap == ValuesMapOf(layerMeta.id)
        IN IF ~e2.state.showGrid
           THEN updateGridLegendPanel(e2, NullLegend, layerMeta, NullVariable)
           ELSE IF layerMeta.id = NoneId
           THEN updateGridLegendPanel(e2, NullLegend, layerMeta, NullVariable)
           ELSE IF variable = NullVariable
           THEN updateGridLegendPanel(e2, NullLegend, layerMeta, NullVariable)
           ELSE
             Bind(computeLegendDataFromGrid(valuesMap, variable, e2.state.useLogScale),
                  LAMBDA legendData :
               Bind(updateGridLegendPanel(e2, legendData, layerMeta, variable),
                    LAMBDA e3 :
                 IF legendData = NullLegend THEN e3
                 ELSE Did([e3 EXCEPT
                             !.gridOverlayLayer =
                               [ kind |-> "geoJSON",
                                 styles |->
                                   [cell \in DOMAIN e3.GRID_GEOMETRY |->
                                      CellStyle(cell, valuesMap, variable, legendData,
                                                e3.state.useLogScale)] ],
                             !.GRID_GEOMETRY = StyledGeometry(@, valuesMap, variable)],
                          "gridOverlay")))))

\* The circle markers refreshMarkers draws, one per feature.
\* markers drawn with the first feature highlighted whatever the selection
MarkersHighlightFirst(s, variable, legendData) ==
  LET baseSize == IF s.markerSize = 0 THEN 3 ELSE s.markerSize IN
  [ i \in 1..Len(s.features) |->
      LET value == getFeatureValue(s.features[i], variable)
          color == colorForValue(value, legendData, s.colorMap)
          isSelected == i = 1
      IN [ radius |-> IF isSelected THEN baseSize + 3 ELSE baseSize,
           color |-> IF isSelected THEN "#ffffff" ELSE color,
           fillColor |-> color ] ]

Markers(s, variable, legendData) ==
  LET baseSize == IF s.markerSize = 0 THEN 3 ELSE s.markerSize IN
  [ i \in 1..Len(s.features) |->
      LET value == getFeatureValue(s.features[i], variable)
          color == colorForValue(value, legendData, s.colorMap)
          isSelected == (i - 1) = s.selectedIndex
      IN [ radius |-> IF isSelected THEN baseSize + 3 ELSE baseSize,
           color |-> IF isSelected THEN "#ffffff" ELSE color,
           fillColor |-> color ] ]

\* map.fitBounds(latLngs) for several features, map.setView(latLngs[0], 10) for one.
FitView(s) ==
  IF Len(s.features) > 1
  THEN [kind |-> "fitBounds", of |-> s.siteDataset, zoom |-> 0]
  ELSE [kind |-> "setView", of |-> s.siteDataset, zoom |-> 10]

refreshMarkers(e0, shouldFit) ==
  Bind(ensureMap(e0), LAMBDA e1 :
    IF ~e1.map THEN e1
    ELSE
      Bind(Did([e1 EXCEPT !.markersLayer = << >>], "clearMarkers"), LAMBDA e2 :
        IF ~e2.state.showSites THEN renderGridOverlay(e2)
        ELSE
          LET s == e2.state
              variable == getActiveSiteVariable(s)
          IN Bind(IF variable # NullVariable
                  THEN computeLegendData(s.features, variable, s.colorMap)
                  ELSE NullLegend,
                  LAMBDA legendData :
               Bind(updateLegend(e2, legendData, variable, s.colorMap), LAMBDA e3 :
                 IF Len(s.features) = 0 THEN renderGridOverlay(e3)
                 ELSE
                   Bind(Did([e3 EXCEPT !.markersLayer = Markers(s, variable, legendData)],
                            "markers"),
                        LAMBDA e4 :
                     renderGridOverlay(IF shouldFit
                                       THEN Did([e4 EXCEPT !.camera = FitView(s)], "fit")
                                       ELSE e4))))))

updatePanels(e0) ==
  Bind(e0, LAMBDA e :
    LET s == e.state IN
    IF Len(s.features) = 0
    THEN Did([e EXCEPT !.detail = [type |-> "Site", title |-> "No sample data"]],
             "panels")
    ELSE LET index == IF s.selectedIndex >= Len(s.features) THEN 0 ELSE s.selectedIndex
         IN Did([e EXCEPT !.state.selectedIndex = index,
                          !.detail = [type |-> getActiveDataset(s).label,
                                      title |-> <<s.siteDataset, index>>]],
                "panels"))

updateGridVariables(e0) ==
  Bind(e0, LAMBDA e :
    LET layer == FindLayer(e.state.gridLayer) IN
    IF layer.id = NoneId THEN Raise(e)
    ELSE IF FindField(layer.variables, e.state.gridVariable) = NullVariable
            /\ Len(layer.variables) = 0
    THEN Raise(e)
    ELSE
    Bind(IF FindField(layer.variables, e.state.gridVariable) = NullVariable
         THEN [e EXCEPT !.state.gridVariable = layer.variables[1].id]
         ELSE e,
         LAMBDA e1 :
      LET variable == FindField(layer.variables, e1.state.gridVariable) IN
      renderGridOverlay(
        Did([e1 EXCEPT !.gridLegend =
               IF variable # NullVariable
               THEN << formatLegendValue(variable.min), formatLegendValue(variable.max) >>
               ELSE << Dash, Dash >>],
            "gridVariableOptions"))))

\* toFixed(2) of a number given in thousandths: the result in hundredths.
ToFixed2(thousandths) == RoundDiv(thousandths, 10)

\* Weights are stored in tenths; the sums are in thousandths.
RECURSIVE WeightedSum(_, _, _, _)
WeightedSum(weights, kind, coefficient, index) ==
  IF index > Len(PTI_SCORES) THEN 0
  ELSE weights[PTI_SCORES[index]][kind] * coefficient * index
       + WeightedSum(weights, kind, coefficient, index + 1)

recomputeScores(e0) ==
  Bind(e0, LAMBDA e :
    LET need == WeightedSum(e.state.weights, "need", 10, 1)
        opportunity == WeightedSum(e.state.weights, "opp", 8, 1)
        combined == need + opportunity
    IN Did([e EXCEPT !.scoreSummary =
              [need |-> ToFixed2(need), opportunity |-> ToFixed2(opportunity),
               combined |-> ToFixed2(combined)]],
           "summary"))

(***************************************************************************)
(* The three-panel site selector prototype                                 *)
(***************************************************************************)
sites ==
  << [name |-> "sana'a central hospital", priority |-> "anchor load"],
     [name |-> "aden fisheries industrial zone", priority |-> "high impact"],
     [name |-> "mukalla peri-urban microgrid", priority |-> "expansion"],
     [name |-> "marib energy hub", priority |-> "high impact"],
     [name |-> "taiz highland cluster", priority |-> "humanitarian"] >>

\* The filter texts typed in the behaviours, trimmed and lower-cased.
SearchTerms == {"", "high impact", "hub", "zzz"}

\* text.includes(term) for the lower-cased names and priorities above.
Includes(text, term) ==
  \/ term = ""
  \/ term = text
  \/ term = "hub" /\ text = "marib energy hub"

\* The cards renderList builds: the 0-based indices of the matching sites.
ListOf(term) ==
  SelectSeq([i \in 1..Len(sites) |-> i - 1],
            LAMBDA idx : \/ term = ""
                         \/ Includes(sites[idx + 1].name, term)
                         \/ Includes(sites[idx + 1].priority, term))

renderList(r0, filterText) ==
  Bind(r0, LAMBDA r :
    [r EXCEPT !.list = [cards |-> ListOf(filterText), selected |-> r.selectedIndex]])

initMap(r0) ==
  Bind(r0, LAMBDA r :
    IF ~leaflet
    THEN IF r.fallbacks = 0 THEN [r EXCEPT !.fallbacks = 1] ELSE r
    ELSE [r EXCEPT !.map = TRUE,
                   !.camera = [kind |-> "setView", of |-> r.selectedIndex, zoom |-> 6],
                   !.mapMarker = r.selectedIndex,
                   !.moves = @ \cup {"setView"}])

reactUpdatePanels(r0) ==
  Bind([r0 EXCEPT !.panels = r0.selectedIndex], LAMBDA r1 :
    IF r1.map /\ r1.mapMarker >= 0
    THEN [r1 EXCEPT !.mapMarker = r1.selectedIndex,
                    !.camera = [kind |-> "flyTo", of |-> r1.selectedIndex, zoom |-> 6],
                    !.moves = @ \cup {"flyTo"}]
    ELSE r1)

ReactBlank ==
  [ selectedIndex |-> 0, map |-> FALSE, mapMarker |-> -1, camera |-> NoCamera,
    search |-> "", list |-> [cards |-> << >>, selected |-> 0], panels |-> 0,
    fallbacks |-> 0, moves |-> {} ]

ReactInit == reactUpdatePanels(initMap(renderList(ReactBlank, "")))

(***************************************************************************)
(* Initial state: the page after its script has run to the end             *)
(***************************************************************************)
InitialWeights ==
  [ id \in PtiIds |->
      [ need |-> IF id \in {"population_score", "displacement_score"} THEN 10 ELSE 0,
        opp |-> IF id \in {"access_services_score", "economic_activity_score"}
                THEN 10 ELSE 0 ] ]

InitialState ==
  [ siteDataset |-> datasetIds[1],
    siteVariable |-> NoneId,
    gridLayer |-> IF Len(GRID_LAYERS) > 0 THEN GRID_LAYERS[1].id ELSE NoneId,
    gridVariable |-> IF Len(GRID_LAYERS) > 0 /\ Len(GRID_LAYERS[1].variables) > 0
                     THEN GRID_LAYERS[1].variables[1].id ELSE NoneId,
    features |-> SITE_FEATURES[datasetIds[1]],
    selectedIndex |-> 0,
    markerSize |-> 3,
    showSites |-> TRUE,
    showGrid |-> TRUE,
    colorMap |-> "blue-red",
    useLogScale |-> FALSE,
    weights |-> InitialWeights ]

\* GRID_LAYERS[0].id and GRID_LAYERS[0].variables[0].id in the state literal
\* raise a TypeError when there is no first layer or it has no variable.
StateConstructionRaises ==
  Len(GRID_LAYERS) = 0 \/ Len(GRID_LAYERS[1].variables) = 0

InitialGeometry ==
  [ cell \in {GridCells[i] : i \in 1..Len(GridCells)} |->
      [h3_05 |-> cell, _originalValue |-> Undefined, _variableLabel |-> Undefined] ]

\* The page as its markup and declarations leave it, before the first render.
BlankEnv ==
  [ state |-> InitialState, map |-> FALSE, markersLayer |-> << >>,
    gridOverlayLayer |-> NoLayer, mapLegend |-> HiddenPanel,
    mapGridLegend |-> HiddenPanel, gridLegend |-> << Dash, Dash >>,
    detail |-> [type |-> "Site", title |-> ""],
    scoreSummary |-> [need |-> 0, opportunity |-> 0, combined |-> 0],
    camera |-> NoCamera, fallbacks |-> 0, GRID_GEOMETRY |-> InitialGeometry,
    effects |-> {}, raised |-> FALSE ]

\* renderSiteSelectors(); renderGridSelectors(); renderWeightsTable();
\* updateSiteVariables(); updatePanels(); refreshMarkers(true); recomputeScores();
InitialRender(e) ==
  Bind(updateGridVariables(updateSiteVariables(e)), LAMBDA e1 :
    IF e1.raised THEN e1
    ELSE recomputeScores(
           refreshMarkers(updatePanels(updateSiteVariables(e1)), TRUE)))

\* The pages of the host application, and the outputs of a script run.
Pages == {"Home", "YEEAP II Monitoring Dashboard", "RESET Geospatial Data Explorer"}

Explorer == "RESET Geospatial Data Explorer"

DefaultPassword == "yemen2024"

Loaders == DatasetIdSet \cup {"grid"}

\* The session of a signed-in user who has opened the data explorer once.
HostReady ==
  [ APP_PASSWORD |-> DefaultPassword, authenticated |-> TRUE, password_input |-> "",
    login_button |-> FALSE, cached |-> TRUE, memo |-> TRUE, rerun |-> FALSE,
    rendered |-> Explorer, raised |-> FALSE, runs |-> 0,
    calls |-> [l \in Loaders |-> 1] ]

\* The page is loaded and its handlers are registered.
LoadReady == [data |-> "complete", stage |-> "ready", raised |-> FALSE]

Commit(e0, trigger) ==
  \E e \in {e0} :
  /\ load.stage = "ready"
  /\ load' = [load EXCEPT !.raised = e.raised]
  /\ state' = e.state
  /\ map' = e.map
  /\ markersLayer' = e.markersLayer
  /\ gridOverlayLayer' = e.gridOverlayLayer
  /\ mapLegend' = e.mapLegend
  /\ mapGridLegend' = e.mapGridLegend
  /\ gridLegend' = e.gridLegend
  /\ detail' = e.detail
  /\ scoreSummary' = e.scoreSummary
  /\ camera' = e.camera
  /\ fallbacks' = e.fallbacks
  /\ GRID_GEOMETRY' = e.GRID_GEOMETRY
  /\ effects' = e.effects
  /\ lastTrigger' = trigger
  /\ UNCHANGED << weightEdits, leaflet, component, react, calc, host >>

Install(e0) ==
  \E e \in {e0} :
  /\ state = e.state
  /\ map = e.map
  /\ markersLayer = e.markersLayer
  /\ gridOverlayLayer = e.gridOverlayLayer
  /\ mapLegend = e.mapLegend
  /\ mapGridLegend = e.mapGridLegend
  /\ gridLegend = e.gridLegend
  /\ detail = e.detail
  /\ scoreSummary = e.scoreSummary
  /\ camera = e.camera
  /\ fallbacks = e.fallbacks
  /\ GRID_GEOMETRY = e.GRID_GEOMETRY
  /\ effects = e.effects

CalcIdle ==
  [ pc |-> "idle", source |-> "point", items |-> << >>, variable |-> NullVariable,
    colorMapId |-> "", useLogScale |-> FALSE, legend |-> NullLegend, value |-> Null,
    resolveMapId |-> "", color |-> "" ]

Init ==
  /\ leaflet \in BOOLEAN
  /\ component \in {"v2", "react"}
  /\ lastTrigger = "init"
  /\ weightEdits = 0
  /\ calc = CalcIdle
  /\ load = LoadReady
  /\ host = HostReady
  /\ IF component = "v2"
     THEN Install(InitialRender(BlankEnv)) /\ react = ReactBlank
     ELSE Install(BlankEnv) /\ react = ReactInit

(***************************************************************************)
(* Event handlers of the data explorer page                                *)
(***************************************************************************)
FieldIds(fields) == {fields[i].id : i \in 1..Len(fields)}

MapIds(maps) == {maps[i].id : i \in 1..Len(maps)}

\* The datasets switched to in the behaviours: the first MaxDatasets of this list.
DatasetChoices ==
  LET order == << "yeeap", "tamkeen", "health", "education", "pilot_minigrid" >>
  IN {order[i] : i \in 1..(IF MaxDatasets < Len(order) THEN MaxDatasets ELSE Len(order))}

\* The palettes chosen in the behaviours: the first MaxPalettes of each kind.
PaletteChoices ==
  LET n == IF MaxPalettes < 4 THEN MaxPalettes ELSE 4
  IN {COLOR_MAPS.continuous[i].id : i \in 1..n}
       \cup {COLOR_MAPS.categorical[i].id : i \in 1..n}

\* the dataset handler doing nothing while there is no map
ChangeSiteDatasetNeedsMap(d) ==
  /\ component = "v2"
  /\ LET e1 == [Env EXCEPT !.state.siteDataset = d,
                           !.state.features = SITE_FEATURES[d],
                           !.state.selectedIndex = 0]
     IN Commit(IF ~map /\ ~leaflet THEN Env
               ELSE refreshMarkers(updatePanels(updateSiteVariables(e1)), TRUE),
               "changeDataset")

\* siteDatasetSelect "change"
ChangeSiteDataset(d) ==
  /\ component = "v2"
  /\ LET e1 == [Env EXCEPT !.state.siteDataset = d,
                           !.state.features = SITE_FEATURES[d],
                           !.state.selectedIndex = 0]
     IN Commit(refreshMarkers(updatePanels(updateSiteVariables(e1)), TRUE),
               "changeDataset")

\* the colour-field handler refitting the viewport as the dataset handler does
ChangeSiteVariableRefit(v) ==
  /\ component = "v2"
  /\ v \in {NoneId} \cup FieldIds(getActiveDataset(state).color_fields)
  /\ LET e1 == [Env EXCEPT !.state.siteVariable = v]
     IN Commit(refreshMarkers(updateSiteVariables(e1), TRUE), "changeColorField")

\* siteVariableSelect "change"; the options are None and the dataset's colour fields
ChangeSiteVariable(v) ==
  /\ component = "v2"
  /\ v \in {NoneId} \cup FieldIds(getActiveDataset(state).color_fields)
  /\ LET e1 == [Env EXCEPT !.state.siteVariable = v]
     IN Commit(refreshMarkers(updateSiteVariables(e1), FALSE), "changeColorField")

\* colorMapSelect "change"; the select is enabled while a colour field is active
\* and then offers the palettes of that field's kind
ChangeColorMap(m) ==
  /\ component = "v2"
  /\ getActiveSiteVariable(state) # NullVariable
  /\ m \in MapIds(IF getActiveSiteVariable(state).type = "categorical"
                  THEN COLOR_MAPS.categorical ELSE COLOR_MAPS.continuous)
  /\ LET e1 == [Env EXCEPT !.state.colorMap = m]
     IN Commit(refreshMarkers(e1, FALSE), "changePalette")

\* toggleSites "change"
ToggleSites ==
  /\ component = "v2"
  /\ LET e1 == [Env EXCEPT !.state.showSites = ~state.showSites]
     IN Commit(refreshMarkers(e1, FALSE), "toggleSites")

\* The texts entered in the marker-size control: parseInt gives the integer,
\* or NaN (Null) for a text that is not a number.
MarkerSizeInputs == {Num(0), Num(25), Null}

\* Math.max(1, Math.min(18, parseInt(text, 10) || 3))
ParseMarkerSize(parsed) ==
  LET n == IF parsed = Null \/ parsed.n = 0 THEN 3 ELSE parsed.n
      capped == IF n > 18 THEN 18 ELSE n
  IN IF capped < 1 THEN 1 ELSE capped

\* markerSizeInput "input"
MarkerSizeInput(parsed) ==
  /\ component = "v2"
  /\ LET e1 == [Env EXCEPT !.state.markerSize = ParseMarkerSize(parsed)]
     IN Commit(refreshMarkers(e1, FALSE), "markerSize")

\* a click arriving for a marker that is no longer on the map
ClickMarkerStale(index) ==
  /\ component = "v2"
  /\ map
  /\ LET e1 == [Env EXCEPT !.state.selectedIndex = index]
     IN Commit(refreshMarkers(updatePanels(e1), FALSE), "clickFeature")

\* circle marker "click": the marker of feature index is on the map
ClickMarker(index) ==
  /\ component = "v2"
  /\ index + 1 \in DOMAIN markersLayer
  /\ LET e1 == [Env EXCEPT !.state.selectedIndex = index]
     IN Commit(refreshMarkers(updatePanels(e1), FALSE), "clickFeature")

\* gridLayerSelect "change"
ChangeGridLayer(l) ==
  /\ component = "v2"
  /\ LET e1 == [Env EXCEPT !.state.gridLayer = l]
     IN Commit(updateGridVariables(e1), "changeGridLayer")

\* gridVariableSelect "change"; the options are the variables of the layer
ChangeGridVariable(v) ==
  /\ component = "v2"
  /\ v \in FieldIds(FindLayer(state.gridLayer).variables)
  /\ LET e1 == [Env EXCEPT !.state.gridVariable = v]
     IN Commit(updateGridVariables(e1), "changeGridVariable")

\* toggleGrid "change"
\* the show-grid handler storing the flag without redrawing the overlay
ToggleGridNoRender ==
  /\ component = "v2"
  /\ LET e1 == [Env EXCEPT !.state.showGrid = ~state.showGrid]
     IN Commit(e1, "toggleGrid")

ToggleGrid ==
  /\ component = "v2"
  /\ LET e1 == [Env EXCEPT !.state.showGrid = ~state.showGrid]
     IN Commit(renderGridOverlay(e1), "toggleGrid")

\* the log-scale handler re-rendering the grid only when switching on
toggleLogScaleStale(e) ==
  IF e.state.useLogScale
  THEN [e EXCEPT !.state.useLogScale = FALSE]
  ELSE renderGridOverlay([e EXCEPT !.state.useLogScale = TRUE])

\* state.useLogScale = toggleLogScale.checked; renderGridOverlay();
toggleLogScale(e) ==
  renderGridOverlay([e EXCEPT !.state.useLogScale = ~e.state.useLogScale])

\* toggleLogScale "change"
ToggleLogScale ==
  /\ component = "v2"
  /\ Commit(toggleLogScale(Env), "toggleLogScale")

\* The numbers typed into a weight cell, in tenths: parseFloat gives the
\* number, or NaN (Null) for an empty or unparsable text.
WeightInputs == {Num(-50), Num(-3), Num(0), Num(10), Num(50), Null}

\* the weight parser without the clamp
ParseWeightUnclamped(parsed) == IF parsed = Null THEN 0 ELSE parsed.n

\* Math.max(-1, Math.min(1, parseFloat(text) || 0)), in tenths
ParseWeight(parsed) ==
  LET n == IF parsed = Null THEN 0 ELSE parsed.n
      capped == IF n > 10 THEN 10 ELSE n
  IN IF capped < -10 THEN -10 ELSE capped

\* weightsTable "input" on the (scoreId, kind) cell
\* the weight handler recomputing the scores after storing the weight
EditWeightRecomputes(scoreId, kind, parsed) ==
  /\ component = "v2"
  /\ weightEdits < MaxWeightEdits
  /\ weightEdits' = weightEdits + 1
  /\ load.stage = "ready"
  /\ load' = [load EXCEPT !.raised = FALSE]
  /\ \E e \in {recomputeScores([Env EXCEPT !.state.weights[scoreId][kind] =
                                               ParseWeight(parsed)])} :
       /\ state' = e.state
       /\ scoreSummary' = e.scoreSummary
       /\ effects' = e.effects
  /\ lastTrigger' = "editWeight"
  /\ UNCHANGED << map, markersLayer, gridOverlayLayer, mapLegend, mapGridLegend,
                  gridLegend, detail, camera, fallbacks,
                  GRID_GEOMETRY, leaflet, component, react, calc, host >>

EditWeight(scoreId, kind, parsed) ==
  /\ component = "v2"
  /\ load.stage = "ready"
  /\ load' = [load EXCEPT !.raised = FALSE]
  /\ weightEdits < MaxWeightEdits
  /\ weightEdits' = weightEdits + 1
  /\ state' = [state EXCEPT !.weights[scoreId][kind] = ParseWeight(parsed)]
  /\ lastTrigger' = "editWeight"
  /\ effects' = {}
  /\ UNCHANGED << map, markersLayer, gridOverlayLayer, mapLegend, mapGridLegend,
                  gridLegend, detail, scoreSummary, camera, fallbacks,
                  GRID_GEOMETRY, leaflet, component, react, calc, host >>

\* recompute button "click"
Recompute ==
  /\ component = "v2"
  /\ Commit(recomputeScores(Env), "recompute")

(***************************************************************************)
(* Event handlers of the three-panel prototype                             *)
(***************************************************************************)
ReactCommit(r0, trigger) ==
  \E r \in {r0} :
  /\ react' = r
  /\ effects' = r.moves
  /\ lastTrigger' = trigger
  /\ UNCHANGED << v2vars, leaflet, component, calc >>

\* card "click": the card of site idx is in the rendered list
ClickCard(idx) ==
  /\ component = "react"
  /\ \E i \in 1..Len(react.list.cards) : react.list.cards[i] = idx
  /\ LET r0 == [react EXCEPT !.moves = {}, !.selectedIndex = idx]
     IN ReactCommit(renderList(reactUpdatePanels(r0), r0.search), "clickFeature")

\* search "input"
SearchInput(term) ==
  /\ component = "react"
  /\ LET r0 == [react EXCEPT !.moves = {}, !.search = term]
     IN ReactCommit(renderList(r0, term), "search")

\* reset-view "click"
ResetView ==
  /\ component = "react"
  /\ LET r0 == [react EXCEPT !.moves = {}, !.selectedIndex = 0, !.search = ""]
     IN \E r1 \in {reactUpdatePanels(renderList(r0, ""))} :
          ReactCommit(IF r1.map /\ r1.mapMarker >= 0
                      THEN [r1 EXCEPT !.camera = [kind |-> "flyTo",
                                                  of |-> r1.selectedIndex, zoom |-> 6],
                                      !.moves = @ \cup {"flyTo"}]
                      ELSE r1,
                      "resetView")

(***************************************************************************)
(* Specifications                                                          *)
(***************************************************************************)
SiteTrigger ==
  \/ \E d \in DatasetChoices : ChangeSiteDataset(d)
  \/ \E v \in {NoneId} \cup UNION {FieldIds(SITE_DATASETS[d].color_fields) : d \in DatasetIdSet} :
       ChangeSiteVariable(v)
  \/ \E m \in PaletteChoices :
       ChangeColorMap(m)
  \/ ToggleSites
  \/ \E parsed \in MarkerSizeInputs : MarkerSizeInput(parsed)
  \/ \E index \in 0..MaxFeatures : ClickMarker(index)

GridTrigger ==
  \/ \E l \in FieldIds(GRID_LAYERS) : ChangeGridLayer(l)
  \/ \E v \in UNION {FieldIds(GRID_LAYERS[i].variables) : i \in 1..Len(GRID_LAYERS)} :
       ChangeGridVariable(v)
  \/ ToggleGrid
  \/ ToggleLogScale

ReactTrigger ==
  \/ \E idx \in 0..(Len(sites) - 1) : ClickCard(idx)
  \/ \E term \in SearchTerms : SearchInput(term)
  \/ ResetView

\* The site-side behaviours of the data explorer and the behaviours of the
\* three-panel prototype.
Next == SiteTrigger \/ ReactTrigger

Spec == Init /\ [][Next]_vars

\* The grid-side behaviours of the data explorer (with the site markers
\* switched on and off).
NextGrid == GridTrigger \/ ToggleSites \/ Recompute

InitGrid == Init /\ component = "v2"

SpecGrid == InitGrid /\ [][NextGrid]_vars

\* The scoring behaviours: weight edits and recomputes on the loaded page.
NextScores ==
  \/ \E scoreId \in PtiIds, kind \in {"need", "opp"}, parsed \in WeightInputs :
       EditWeight(scoreId, kind, parsed)
  \/ Recompute

InitScores == Init /\ component = "v2"

SpecScores == InitScores /\ [][NextScores]_vars

\* The behaviours of both pages when the map library did not load: every
\* trigger that needs no marker on the map.
InitNoMap == Init /\ ~leaflet

NextNoMap ==
  \/ \E d \in DatasetChoices : ChangeSiteDataset(d)
  \/ \E v \in {NoneId} \cup UNION {FieldIds(SITE_DATASETS[d].color_fields) : d \in DatasetIdSet} :
       ChangeSiteVariable(v)
  \/ \E m \in PaletteChoices : ChangeColorMap(m)
  \/ ToggleSites
  \/ \E parsed \in MarkerSizeInputs : MarkerSizeInput(parsed)
  \/ GridTrigger
  \/ Recompute
  \/ ReactTrigger

SpecNoMap == InitNoMap /\ [][NextNoMap]_vars

\* _load_dataset_features for every dataset, then _load_grid_datasets: an
\* absent site file gives no features, an absent geometry file raises at open.
LoadData ==
  /\ load.stage = "start"
  /\ load' = IF load.data = "noGeometry"
             THEN [load EXCEPT !.stage = "failed", !.raised = TRUE]
             ELSE [load EXCEPT !.stage = "loaded"]
  /\ lastTrigger' = "loadData"
  /\ UNCHANGED << state, map, markersLayer, gridOverlayLayer, mapLegend, mapGridLegend,
                  gridLegend, detail, scoreSummary, camera, fallbacks, GRID_GEOMETRY,
                  weightEdits, leaflet, effects, component, react, calc, host >>

\* The page script from its first line to the initial render.
RunScript ==
  /\ load.stage = "loaded"
  /\ lastTrigger' = "init"
  /\ IF StateConstructionRaises
     THEN /\ load' = [load EXCEPT !.stage = "failed", !.raised = TRUE]
          /\ UNCHANGED << state, map, markersLayer, gridOverlayLayer, mapLegend,
                          mapGridLegend, gridLegend, detail, scoreSummary, camera,
                          fallbacks, GRID_GEOMETRY, effects >>
     ELSE \E e \in {InitialRender(BlankEnv)} :
          /\ load' = [load EXCEPT !.stage = "ready", !.raised = e.raised]
          /\ state' = e.state
          /\ map' = e.map
          /\ markersLayer' = e.markersLayer
          /\ gridOverlayLayer' = e.gridOverlayLayer
          /\ mapLegend' = e.mapLegend
          /\ mapGridLegend' = e.mapGridLegend
          /\ gridLegend' = e.gridLegend
          /\ detail' = e.detail
          /\ scoreSummary' = e.scoreSummary
          /\ camera' = e.camera
          /\ fallbacks' = e.fallbacks
          /\ GRID_GEOMETRY' = e.GRID_GEOMETRY
          /\ effects' = e.effects
  /\ UNCHANGED << weightEdits, leaflet, component, react, calc, host >>

\* The page before anything is loaded: the markup without the script's work.
InitLoad ==
  /\ leaflet \in BOOLEAN
  /\ component = "v2"
  /\ lastTrigger = "start"
  /\ weightEdits = 0
  /\ calc = CalcIdle
  /\ react = ReactBlank
  /\ \E data \in DataSets : load = [data |-> data, stage |-> "start", raised |-> FALSE]
  /\ host = HostReady
  /\ Install(BlankEnv)

\* Page load over every input data set, then the grid triggers and the
\* dataset switch on the loaded page.
NextLoad ==
  \/ LoadData
  \/ RunScript
  \/ GridTrigger
  \/ \E d \in DatasetChoices : ChangeSiteDataset(d)

SpecLoad == InitLoad /\ [][NextLoad]_vars

(***************************************************************************)
(* The host application: app.py, the data explorer page and the Python     *)
(* body of render_site_selector_v2                                         *)
(***************************************************************************)
MaxRuns == 4          \* script runs a user starts in one session

\* os.getenv("APP_PASSWORD", "yemen2024")
ConfiguredPasswords == {DefaultPassword, "letmein"}

\* What a user can have typed into the password widget.
Passwords == {"", DefaultPassword, "letmein"}

\* render_site_selector_v2(): a fresh memo of the cached page function replays
\* the page without running the body; the body reads the JSON strings from
\* the session state, or calls _load_dataset_features for every dataset and
\* then _load_grid_datasets, which raises at open when the geometry file is
\* absent, before anything is stored.
render_site_selector_v2(h) ==
  IF h.memo THEN h
  ELSE IF h.cached THEN [h EXCEPT !.memo = TRUE]
  ELSE LET called == [h EXCEPT !.calls = [l \in Loaders |-> h.calls[l] + 1]]
       IN IF load.data = "noGeometry"
          THEN [called EXCEPT !.raised = TRUE]
          ELSE [called EXCEPT !.cached = TRUE, !.memo = TRUE]

\* if login_button: if password_input == APP_PASSWORD: authenticated = True;
\* st.rerun()
\* a login handler that accepts every submission
AuthenticateAnyPassword(h) ==
  IF h.login_button
  THEN [h EXCEPT !.authenticated = TRUE, !.rerun = TRUE]
  ELSE h

Authenticate(h) ==
  IF h.login_button /\ h.password_input = h.APP_PASSWORD
  THEN [h EXCEPT !.authenticated = TRUE, !.rerun = TRUE]
  ELSE h

\* PAGES_MAP.get(page, pg.home)()
Dispatch(h, page) ==
  IF page = Explorer
  THEN [render_site_selector_v2(h) EXCEPT !.rendered = page]
  ELSE [h EXCEPT !.rendered = page]

\* One run of app.py with the widget inputs of the run: the login form and
\* st.stop() while the session is not authenticated, the selected page
\* otherwise.
app(h0, password, click, page) ==
  LET h == [h0 EXCEPT !.rerun = FALSE, !.raised = FALSE, !.login_button = FALSE,
                      !.runs = h0.runs + 1]
  IN IF ~h.authenticated
     THEN Authenticate([h EXCEPT !.password_input = password,
                                 !.login_button = click,
                                 !.rendered = "login"])
     ELSE Dispatch(h, page)

\* The run's output reaches the browser: the explorer page that was already
\* shown stays as it is, a newly shown one starts its script, and any other
\* output removes it.
HostCommit(h0) ==
  \E h \in {h0} :
  /\ host' = h
  /\ lastTrigger' = "run"
  /\ load' = IF h.rendered = Explorer /\ ~h.raised
             THEN IF host.rendered = Explorer /\ load.stage # "start"
                  THEN load
                  ELSE [load EXCEPT !.stage = "loaded", !.raised = FALSE]
             ELSE [load EXCEPT !.stage = "start", !.raised = FALSE]
  /\ UNCHANGED << state, map, markersLayer, gridOverlayLayer, mapLegend, mapGridLegend,
                  gridLegend, detail, scoreSummary, camera, fallbacks, GRID_GEOMETRY,
                  weightEdits, leaflet, effects, component, react, calc >>

\* A widget interaction starts a script run.
RunApp(password, click, page) ==
  /\ component = "v2"
  /\ ~host.rerun
  /\ host.runs < MaxRuns
  /\ HostCommit(app(host, password, click, page))

\* st.rerun(): the script runs again at once, the navigation bar on its
\* default page.
Rerun ==
  /\ component = "v2"
  /\ host.rerun
  /\ HostCommit(app(host, host.password_input, FALSE, "Home"))

\* ttl=3600: the memo of the cached page function expires.
Expire ==
  /\ component = "v2"
  /\ host.memo
  /\ host' = [host EXCEPT !.memo = FALSE]
  /\ lastTrigger' = "expire"
  /\ UNCHANGED << state, map, markersLayer, gridOverlayLayer, mapLegend, mapGridLegend,
                  gridLegend, detail, scoreSummary, camera, fallbacks, GRID_GEOMETRY,
                  weightEdits, leaflet, effects, component, react, calc, load >>

\* A new session: nothing in the session state, the memo of the page
\* function possibly filled by another session of the same server.
InitHost ==
  /\ leaflet = TRUE
  /\ component = "v2"
  /\ lastTrigger = "start"
  /\ weightEdits = 0
  /\ calc = CalcIdle
  /\ react = ReactBlank
  /\ \E data \in {"complete", "noGeometry", "noLayers"} :
       load = [data |-> data, stage |-> "start", raised |-> FALSE]
  /\ Install(BlankEnv)
  /\ \E password \in ConfiguredPasswords, memo \in BOOLEAN :
       /\ memo => load.data # "noGeometry"
       /\ host = [ APP_PASSWORD |-> password, authenticated |-> FALSE,
                   password_input |-> "", login_button |-> FALSE, cached |-> FALSE,
                   memo |-> memo, rerun |-> FALSE, rendered |-> "none",
                   raised |-> FALSE, runs |-> 0, calls |-> [l \in Loaders |-> 0] ]

\* Script runs of the host application, the page script of a newly shown
\* explorer page, and dataset switches on it.
NextHost ==
  \/ \E password \in Passwords, click \in BOOLEAN, page \in Pages :
       RunApp(password, click, page)
  \/ Rerun
  \/ Expire
  \/ RunScript
  \/ \E d \in DatasetChoices : ChangeSiteDataset(d)

SpecHost == InitHost /\ [][NextHost]_vars

(***************************************************************************)
(* The grid table loader on its own: one CSV table through the column loop *)
(* of _load_grid_datasets and the variable selector of the page            *)
(***************************************************************************)
MaxRows == 2          \* rows of a sample grid table
MaxColumns == 2       \* columns of a sample grid table besides the key

KeyColumn == "h3_05"

\* The cells of a CSV file as text: empty, text, and a number.
CellTexts == {"", "n/a", "7"}

ColumnNames == {"pop", "note", "Unnamed: 0"}

\* col.startswith("Unnamed")
StartsWithUnnamed(name) == name \in {"Unnamed: 0"}

\* pd.to_numeric(..., errors="coerce") on one cell
to_numeric(text) == IF text = "7" THEN Num(7) ELSE Null

\* label_map.get(column, _humanize_column(column)), no label being configured
\* for the sample columns
humanize_column(name) ==
  CASE name = "pop" -> "Pop"
    [] name = "note" -> "Note"
    [] OTHER -> "Unnamed: 0"

\* The key column: every row keyed, or the last row without its key.
KeyCells ==
  { [r \in 1..MaxRows |-> IF r = MaxRows /\ ~keyed THEN "" ELSE "k" \o ToString(r)] :
      keyed \in BOOLEAN }

\* The cells of a data column: one text in the rows above the last, and any
\* text in the last row.
ColumnCells ==
  { [r \in 1..MaxRows |-> IF r = MaxRows THEN last ELSE first] :
      first \in CellTexts, last \in CellTexts }

DataColumns == [name : ColumnNames, cells : ColumnCells]

DataColumnLists ==
  UNION { { cols \in [1..n -> DataColumns] :
              \A i, j \in 1..n : cols[i].name = cols[j].name => i = j } :
          n \in 0..MaxColumns }

\* The tables read_csv can return: with or without the key column.
GridTables ==
  { key \o cols :
      key \in {<< >>} \cup { <<[name |-> KeyColumn, cells |-> cells]>> : cells \in KeyCells },
      cols \in DataColumnLists }

HasColumn(df, name) == \E i \in 1..Len(df) : df[i].name = name

ColumnNamed(df, name) == df[CHOOSE i \in 1..Len(df) : df[i].name = name]

\* df.dropna(subset=["h3_05"]): the rows that keep their place
KeyedRows(df) == { r \in 1..MaxRows : ColumnNamed(df, KeyColumn).cells[r] # "" }

ColumnNumbers(col, rows) == { to_numeric(col.cells[r]).n : r \in { q \in rows : to_numeric(col.cells[q]) # Null } }

\* The column loop of the loader over one table: the Unnamed columns are
\* dropped, a table without the key column gives no layer, rows without a key
\* are dropped, and a column whose coerced series is empty is skipped.
\* a column loop that keeps the columns with an empty coerced series
load_grid_table_keeps_empty(table) ==
  LET df == SelectSeq(table, LAMBDA col : ~StartsWithUnnamed(col.name)) IN
  IF ~HasColumn(df, KeyColumn)
  THEN [loaded |-> FALSE, variables |-> << >>, values |-> << >>]
  ELSE
    LET rows == KeyedRows(df)
        numeric == SelectSeq(df, LAMBDA col : col.name # KeyColumn)
    IN [ loaded |-> TRUE,
         variables |->
           [ i \in 1..Len(numeric) |->
               [ id |-> numeric[i].name, label |-> humanize_column(numeric[i].name),
                 type |-> "numeric", min |-> Null, max |-> Null ] ],
         values |-> << >> ]

load_grid_table(table) ==
  LET df == SelectSeq(table, LAMBDA col : ~StartsWithUnnamed(col.name)) IN
  IF ~HasColumn(df, KeyColumn)
  THEN [loaded |-> FALSE, variables |-> << >>, values |-> << >>]
  ELSE
    LET rows == KeyedRows(df)
        numeric == SelectSeq(df, LAMBDA col :
                     col.name # KeyColumn /\ ColumnNumbers(col, rows) # {})
    IN [ loaded |-> TRUE,
         variables |->
           [ i \in 1..Len(numeric) |->
               LET nums == ColumnNumbers(numeric[i], rows) IN
               [ id |-> numeric[i].name, label |-> humanize_column(numeric[i].name),
                 type |-> "numeric",
                 min |-> Num(CHOOSE x \in nums : \A y \in nums : x <= y),
                 max |-> Num(CHOOSE x \in nums : \A y \in nums : x >= y) ] ],
         values |->
           [ key \in { ColumnNamed(df, KeyColumn).cells[r] : r \in rows } |->
               LET r == CHOOSE q \in rows : ColumnNamed(df, KeyColumn).cells[q] = key IN
               [ name \in { numeric[i].name : i \in 1..Len(numeric) } |->
                   to_numeric(ColumnNamed(df, name).cells[r]) ] ] ]

\* gridVariableSelect.innerHTML = layer.variables.map(...): the options
GridVariableOptions(layer) == [ i \in 1..Len(layer.variables) |-> layer.variables[i].id ]

InitTables ==
  /\ leaflet = TRUE
  /\ component = "loader"
  /\ lastTrigger = "init"
  /\ weightEdits = 0
  /\ load = LoadReady
  /\ host = HostReady
  /\ Install(BlankEnv)
  /\ react = ReactBlank
  /\ \E table \in GridTables :
       calc = [ pc |-> "table", table |-> table,
                layer |-> [loaded |-> FALSE, variables |-> << >>, values |-> << >>],
                options |-> << >> ]

\* The loader reads the table.
LoadTable ==
  /\ component = "loader"
  /\ calc.pc = "table"
  /\ calc' = [calc EXCEPT !.pc = "layer", !.layer = load_grid_table(calc.table)]
  /\ lastTrigger' = "loadTable"
  /\ UNCHANGED << v2vars, leaflet, effects, component, react >>

\* The layer is selected on the page: updateGridVariables fills the selector.
OfferVariables ==
  /\ component = "loader"
  /\ calc.pc = "layer"
  /\ calc.layer.loaded
  /\ calc' = [calc EXCEPT !.pc = "offered", !.options = GridVariableOptions(calc.layer)]
  /\ lastTrigger' = "offerVariables"
  /\ UNCHANGED << v2vars, leaflet, effects, component, react >>

NextTables == LoadTable \/ OfferVariables

SpecTables == InitTables /\ [][NextTables]_vars

(***************************************************************************)
(* The legend engine and the colour resolver on their own: the inputs are  *)
(* drawn in the initial state, ComputeLegend builds the legend and         *)
(* ColorFor resolves the colour of one value against it.                   *)
(***************************************************************************)
ItemValues == {Null, Str(""), Str("A"), Str("B"), Num(-2), Num(0), Num(5)}

\* All item lists of at most n values.
RECURSIVE ItemLists(_)
ItemLists(n) ==
  IF n = 0 THEN {<< >>}
  ELSE LET shorter == ItemLists(n - 1) IN
       shorter \cup {Append(l, v) : l \in {x \in shorter : Len(x) = n - 1}, v \in ItemValues}

\* n items with pairwise distinct keys k1 .. kn.
DistinctKeys(n) == [i \in 1..n |-> Str("k" \o ToString(i))]

\* Long lists: distinct keys around and beyond the palette sizes, also with
\* a repeated key and a missing value in between.
LongLists ==
  UNION { { DistinctKeys(n),
            <<Str("k1")>> \o DistinctKeys(n),
            <<Null>> \o DistinctKeys(n) } : n \in (MaxKeys - 3)..MaxKeys }

CalcItems == ItemLists(MaxItems) \cup LongLists

CalcVariables ==
  { NullVariable,
    CategoricalField("f", "Field"),
    NumericField("f", "Field", 0, 9),
    [id |-> "f", label |-> "Field", type |-> "numeric", min |-> Null, max |-> Null] }

CalcPalettes == {"default", "pastel", "viridis"}

\* Features carrying the items as the value of property f.
CalcFeatures(items) ==
  [i \in 1..Len(items) |-> [lat |-> 0, lon |-> 0, properties |-> [f |-> items[i]]]]

\* A values map with one row per item, in insertion order.
CalcValuesMap(items) ==
  [c \in {CellOrder[i] : i \in 1..Len(items)} |->
     [f |-> items[CHOOSE i \in 1..Len(items) : CellOrder[i] = c]]]

InitLegend ==
  /\ leaflet = TRUE
  /\ component = "legend"
  /\ lastTrigger = "init"
  /\ weightEdits = 0
  /\ load = LoadReady
  /\ host = HostReady
  /\ Install(BlankEnv)
  /\ react = ReactBlank
  /\ \E source \in {"point", "grid"}, items \in CalcItems, variable \in CalcVariables,
        colorMapId \in CalcPalettes, useLogScale \in BOOLEAN :
       /\ source = "point" => ~useLogScale
       /\ source = "grid" => colorMapId = "default"
       /\ calc = [CalcIdle EXCEPT !.pc = "input", !.source = source, !.items = items,
                                  !.variable = variable, !.colorMapId = colorMapId,
                                  !.useLogScale = useLogScale]

\* computeLegend(items, field, paletteId), for point features or for grid rows
ComputeLegend ==
  /\ calc.pc = "input"
  /\ calc' = [calc EXCEPT
                !.pc = "legend",
                !.legend =
                  IF calc.source = "point"
                  THEN computeLegendData(CalcFeatures(calc.items), calc.variable,
                                         calc.colorMapId)
                  ELSE computeLegendDataFromGrid(CalcValuesMap(calc.items), calc.variable,
                                                 calc.useLogScale)]
  /\ lastTrigger' = "computeLegend"
  /\ UNCHANGED << v2vars, leaflet, effects, component, react >>

\* The values a caller resolves against a legend: numbers (in the legend's
\* colour space) or null for a numeric legend, strings or null otherwise.
ProbeValues(legend) ==
  IF legend # NullLegend /\ legend.type = "numeric"
  THEN {Null, Num(legend.min), Num(legend.max), Num(legend.min - 1), Num(legend.max + 1)}
  ELSE {Null, Str("A"), Str("k1"), Str("k" \o ToString(MaxKeys - 2)),
        Str("k" \o ToString(MaxKeys))}

\* The palette ids a caller resolves with: the one the legend was built
\* with or another one for point features, none for the grid.
ResolvePalettes(c) ==
  IF c.source = "point" THEN {c.colorMapId, "pastel"} ELSE {"undefined"}

\* colorFor(value, legend, paletteId)
ColorFor(value, colorMapId) ==
  /\ calc.pc = "legend"
  /\ value \in ProbeValues(calc.legend)
  /\ colorMapId \in ResolvePalettes(calc)
  /\ calc' = [calc EXCEPT
                !.pc = "color",
                !.value = value,
                !.resolveMapId = colorMapId,
                !.color = colorForValue(value, calc.legend, colorMapId)]
  /\ lastTrigger' = "colorFor"
  /\ UNCHANGED << v2vars, leaflet, effects, component, react >>

NextLegend ==
  \/ ComputeLegend
  \/ \E value \in ProbeValues(calc.legend), colorMapId \in ResolvePalettes(calc) :
       ColorFor(value, colorMapId)

SpecLegend == InitLegend /\ [][NextLegend]_vars

(***************************************************************************)
(* Properties                                                              *)
(***************************************************************************)
CameraMoves == {"createMap", "fit", "setView", "flyTo"}

GridRenders == {"removeGridOverlay", "gridOverlay", "gridLegend"}

\* C1: after the change-point-dataset handler (map available, non-empty
\* target dataset) the selected index is 0 and the handler has refitted the
\* viewport.
C1_DatasetSwitchRefits ==
  (component = "v2" /\ map /\ lastTrigger = "changeDataset" /\ Len(state.features) > 0)
    => (state.selectedIndex = 0 /\ "fit" \in effects)

\* C2: the change-colour-field handler leaves the selected index, the
\* dataset and the features as they were and does not move the viewport.
C2_ColorFieldFrame ==
  [][lastTrigger' = "changeColorField" =>
       /\ state'.selectedIndex = state.selectedIndex
       /\ state'.siteDataset = state.siteDataset
       /\ state'.features = state.features
       /\ camera' = camera
       /\ effects' \cap CameraMoves = {}]_vars

C2_Witness ==
  /\ component = "v2" /\ map /\ state.showSites
  /\ lastTrigger = "changeColorField"
  /\ state.siteVariable # NoneId
  /\ state.selectedIndex > 0
  /\ "markers" \in effects

\* C3: in both selector pages only a dataset switch, a reset-view and the
\* initial render move the map camera.
C3_CameraMovesOnlyOnSwitchOrReset ==
  lastTrigger \notin {"init", "changeDataset", "resetView"}
    => effects \cap CameraMoves = {}

\* C4: changing the colour field, the palette, show-sites or the marker size
\* does not remove, rebuild or restyle the grid overlay or the grid legend.
C4_SiteTriggersLeaveGrid ==
  lastTrigger \in {"changeColorField", "changePalette", "toggleSites", "markerSize"}
    => effects \cap GridRenders = {}

\* The site legend panel of the store's current dataset, field and palette.
ExpectedSiteLegend(s) ==
  LET variable == getActiveSiteVariable(s)
      legend == IF variable # NullVariable
                THEN computeLegendData(s.features, variable, s.colorMap)
                ELSE NullLegend
  IN LegendPanel(getActiveDataset(s).label, legend, variable, s.colorMap)

\* C5: between handlers (map available) the site legend panel shows the
\* legend of the store's current dataset, colour field and palette.
C5_SiteLegendCurrent ==
  (component = "v2" /\ map) => mapLegend = ExpectedSiteLegend(state)

ClampSize(n) == IF n < 1 THEN 1 ELSE IF n > 18 THEN 18 ELSE n

ClampWeight(w) == IF w < -10 THEN -10 ELSE IF w > 10 THEN 10 ELSE w

\* C7: every weight stays in [-1, 1] (tenths: -10..10); editing a cell with
\* the number w stores min(1, max(-1, w)) in that cell and changes no other.
C7_WeightsClamped ==
  /\ [](\A id \in PtiIds : \A kind \in {"need", "opp"} :
          state.weights[id][kind] \in -10..10)
  /\ [][\A id \in PtiIds : \A kind \in {"need", "opp"} :
          \A parsed \in WeightInputs \ {Null} :
            EditWeight(id, kind, parsed) =>
              /\ state'.weights[id][kind] = ClampWeight(parsed.n)
              /\ \A id2 \in PtiIds : \A kind2 \in {"need", "opp"} :
                   (id2 # id \/ kind2 # kind) =>
                     state'.weights[id2][kind2] = state.weights[id2][kind2]]_vars

C7_Witness ==
  /\ lastTrigger = "editWeight"
  /\ weightEdits = 2
  /\ state.weights["climate_score"]["need"] = -10
  /\ state.weights["population_score"]["opp"] = 10

HasUnknownEntry(legend) == FindIndex(legend.categories, "Unknown") >= 0

\* C8 as stated: colorFor(null, legend, palette) is the missing-value gray
\* for every non-absent legend.
C8_NullAlwaysGray ==
  (calc.pc = "color" /\ calc.value = Null /\ calc.legend # NullLegend)
    => calc.color = MissingGray

\* C8: colorFor(null, legend, palette) is the missing-value gray for a
\* numeric legend and for a categorical legend without an "Unknown" entry;
\* with an "Unknown" entry it is the palette colour at that entry's position.
C8_NullColor ==
  (calc.pc = "color" /\ calc.value = Null /\ calc.legend # NullLegend)
    => calc.color =
         IF calc.legend.type = "categorical" /\ HasUnknownEntry(calc.legend)
         THEN LET colors == FindMap(COLOR_MAPS.categorical, calc.resolveMapId).colors
              IN colors[(FindIndex(calc.legend.categories, "Unknown") % Len(colors)) + 1]
         ELSE MissingGray

C8_Witness ==
  /\ calc.pc = "color" /\ calc.value = Null
  /\ calc.legend # NullLegend /\ calc.legend.type = "categorical"
  /\ FindIndex(calc.legend.categories, "Unknown") = 1
  /\ calc.color # MissingGray

\* The distinct keys of a list of raw values, in order of first occurrence.
RECURSIVE DistinctKeysOf(_, _)
DistinctKeysOf(values, seen) ==
  IF values = << >> THEN seen
  ELSE LET key == KeyOf(Head(values)) IN
       DistinctKeysOf(Tail(values),
                      IF \E i \in 1..Len(seen) : seen[i] = key THEN seen
                      ELSE Append(seen, key))

PaletteColors(c) ==
  IF c.source = "point" THEN FindMap(COLOR_MAPS.categorical, c.colorMapId).colors
  ELSE CATEGORY_COLORS

\* C9: when the distinct keys of the items outnumber the palette's colours,
\* the legend holds the first palette-count distinct keys in item order, and
\* a key of the items without a legend entry still resolves to a palette
\* colour.
C9_OverflowKeysGetPaletteColor ==
  LET keys == DistinctKeysOf(calc.items, << >>)
      colors == PaletteColors(calc)
  IN (/\ calc.pc = "color"
      /\ calc.legend # NullLegend /\ calc.legend.type = "categorical"
      /\ Len(keys) > Len(colors))
       => /\ [i \in 1..Len(calc.legend.categories) |-> calc.legend.categories[i].value]
               = SubSeq(keys, 1, Len(colors))
          /\ (/\ \E i \in 1..Len(keys) : keys[i] = KeyOf(calc.value)
              /\ FindIndex(calc.legend.categories, KeyOf(calc.value)) < 0)
               => /\ calc.color # MissingGray
                  /\ \E i \in 1..Len(colors) : calc.color = colors[i]

\* C10: a categorical legend has at least one entry and at most as many as
\* the palette has colours, with pairwise distinct values and colours.
C10_CategoricalLegendBounded ==
  (calc.pc \in {"legend", "color"} /\ calc.legend # NullLegend
     /\ calc.legend.type = "categorical")
    => LET categories == calc.legend.categories IN
       /\ Len(categories) >= 1
       /\ Len(categories) <= Len(PaletteColors(calc))
       /\ \A i, j \in 1..Len(categories) :
            i # j => /\ categories[i].value # categories[j].value
                     /\ categories[i].color # categories[j].color

C10_Witness ==
  /\ calc.pc = "legend"
  /\ calc.legend # NullLegend /\ calc.legend.type = "categorical"
  /\ Len(calc.legend.categories) = Len(PaletteColors(calc))
  /\ Len(DistinctKeysOf(calc.items, << >>)) > Len(PaletteColors(calc))

\* The rgb(...) text of a colour triple.
RgbText(triple) ==
  "rgb(" \o ToString(triple[1]) \o ", " \o ToString(triple[2])
         \o ", " \o ToString(triple[3]) \o ")"

\* The numbers among the items of a legend computation.
ItemNumbers(items) ==
  {toNumber(items[i]).n : i \in {j \in 1..Len(items) : toNumber(items[j]) # Null}}

\* The numbers that enter the colour range: with the log scale on, the
\* non-negative ones.
RangeNumbers(c) ==
  IF c.useLogScale THEN {n \in ItemNumbers(c.items) : n >= 0} ELSE ItemNumbers(c.items)

\* One unit of the legend's colour space.
ColorUnit(c) == IF c.source = "point" THEN 1 ELSE Milli

\* C11: a numeric legend has min < max, a single-valued field being widened
\* to max = min + 1; colorFor of a value at or below min is the palette's
\* start colour and of a value at or above max the palette's end colour.
C11_NumericLegendEnds ==
  (calc.pc \in {"legend", "color"} /\ calc.legend # NullLegend
     /\ calc.legend.type = "numeric")
    => /\ calc.legend.min < calc.legend.max
       /\ Cardinality(RangeNumbers(calc)) = 1
            => calc.legend.max = calc.legend.min + ColorUnit(calc)
       /\ (calc.pc = "color" /\ calc.value # Null)
            => LET palette == FindMap(COLOR_MAPS.continuous, calc.resolveMapId) IN
               /\ calc.value.n <= calc.legend.min => calc.color = RgbText(palette.start)
               /\ calc.value.n >= calc.legend.max => calc.color = RgbText(palette.end)

C11_Witness ==
  /\ calc.pc = "color"
  /\ calc.legend # NullLegend /\ calc.legend.type = "numeric"
  /\ Cardinality(RangeNumbers(calc)) = 1
  /\ calc.value = Num(calc.legend.max + 1)
  /\ calc.color = RgbText(FindMap(COLOR_MAPS.continuous, calc.resolveMapId).end)

\* C12: when no item carries a number for a numeric field, computeLegend
\* (point or grid) returns a numeric legend over the field's nominal
\* [min, max], and null only when that metadata is not finite.
C12_MetadataFallback ==
  (calc.pc = "legend" /\ calc.variable # NullVariable /\ calc.variable.type = "numeric"
     /\ ItemNumbers(calc.items) = {})
    => IF calc.variable.min # Null /\ calc.variable.max # Null
       THEN /\ calc.legend # NullLegend
            /\ calc.legend.type = "numeric"
            /\ ~calc.useLogScale =>
                 /\ calc.legend.min = calc.variable.min.n * ColorUnit(calc)
                 /\ calc.legend.max = calc.variable.max.n * ColorUnit(calc)
       ELSE calc.legend = NullLegend

\* C13: for every input data set (absent site file, absent grid geometry
\* file, no grid layer, a grid layer with zero variables) neither the page
\* load nor any later trigger raises.
C13_NeverRaises == ~load.raised

\* The page's globals as they would be had the map been created.
WithMap(e) == [e EXCEPT !.map = TRUE]

\* The detail panel of the feature at the selected index of the active dataset.
ExpectedDetail(s) ==
  IF Len(s.features) = 0 THEN [type |-> "Site", title |-> "No sample data"]
  ELSE [type |-> SITE_DATASETS[s.siteDataset].label,
        title |-> <<s.siteDataset, s.selectedIndex>>]

PositionalSum(weights, kind, coefficient) ==
  coefficient * ( 1 * weights["population_score"][kind]
                + 2 * weights["displacement_score"][kind]
                + 3 * weights["climate_score"][kind]
                + 4 * weights["conflict_score"][kind]
                + 5 * weights["food_nutrition_security_score"][kind]
                + 6 * weights["access_services_score"][kind]
                + 7 * weights["economic_activity_score"][kind] )

\* The summary of a weight table: need with 0.1 per position, opportunity
\* with 0.08 per position, each printed with two decimals (in hundredths).
ExpectedSummary(weights) ==
  LET need == PositionalSum(weights, "need", 10)
      opportunity == PositionalSum(weights, "opp", 8)
  IN [need |-> ToFixed2(need), opportunity |-> ToFixed2(opportunity),
      combined |-> ToFixed2(need + opportunity)]

\* C15: the score summary changes only in a recompute step; a weight edit
\* leaves the summary and every other rendered panel as they were; right
\* after a recompute the summary is the score of the stored weights.
C15_SummaryOnlyOnRecompute ==
  [][/\ scoreSummary' # scoreSummary => lastTrigger' = "recompute"
     /\ lastTrigger' = "editWeight" =>
          UNCHANGED << scoreSummary, mapLegend, mapGridLegend, gridLegend, detail,
                       markersLayer, gridOverlayLayer, camera, fallbacks >>
     /\ lastTrigger' = "recompute" =>
          /\ scoreSummary' = ExpectedSummary(state'.weights)
          /\ state' = state]_vars

C15_Witness ==
  /\ lastTrigger = "editWeight"
  /\ state.weights["climate_score"]["need"] = 10
  /\ scoreSummary = ExpectedSummary(InitialWeights)
  /\ scoreSummary # ExpectedSummary(state.weights)

\* The coefficients per position tried as the common constant, in
\* thousandths per tenth of weight (10 is 0.1, 8 is 0.08).
Coefficients == 1..20

\* C16: after a recompute, need and opportunity are the positional sums of
\* the need and the opportunity weights with one and the same constant per
\* position, and combined is their sum.
C16_SameCoefficient ==
  lastTrigger = "recompute" =>
    \E c \in Coefficients :
      /\ scoreSummary.need = ToFixed2(PositionalSum(state.weights, "need", c))
      /\ scoreSummary.opportunity = ToFixed2(PositionalSum(state.weights, "opp", c))
      /\ scoreSummary.combined =
           ToFixed2(PositionalSum(state.weights, "need", c)
                      + PositionalSum(state.weights, "opp", c))

\* C17: from every state with the log scale off, toggling it on and then off
\* leaves the grid legend panel (its min/max labels) and the whole store as
\* they were.
C17_LogToggleRoundTrip ==
  (component = "v2" /\ load.stage = "ready" /\ map /\ ~state.useLogScale)
    => LET on == toggleLogScale(Env)
           off == toggleLogScale(on)
       IN /\ on.state = [state EXCEPT !.useLogScale = TRUE]
          /\ off.state = state
          /\ off.mapGridLegend = mapGridLegend

C17_Witness ==
  /\ component = "v2" /\ map /\ state.showGrid /\ ~state.useLogScale
  /\ lastTrigger = "toggleLogScale"
  /\ state.gridVariable = "elevation_change"
  /\ mapGridLegend # HiddenPanel
  /\ toggleLogScale(Env).mapGridLegend = HiddenPanel

\* C18: with the log scale on, the grid legend's colour range is
\* [ln(1 + m), ln(1 + M)] and its original-space range, used for the labels,
\* is [m, M], for m and M the smallest and largest non-negative values.
C18_LogLegendRange ==
  LET nonNegative == {n \in ItemNumbers(calc.items) : n >= 0}
      m == CHOOSE n \in nonNegative : \A k \in nonNegative : n <= k
      M == CHOOSE n \in nonNegative : \A k \in nonNegative : n >= k
  IN (/\ calc.pc = "legend" /\ calc.source = "grid" /\ calc.useLogScale
      /\ calc.variable # NullVariable /\ calc.variable.type = "numeric"
      /\ nonNegative # {})
       => /\ calc.legend # NullLegend
          /\ calc.legend.type = "numeric"
          /\ calc.legend.min = LnTable[1 + m]
          /\ m < M => calc.legend.max = LnTable[1 + M]
          /\ calc.legend.originalMin = Num(m)
          /\ calc.legend.originalMax = Num(M)

\* C19: after every trigger the store's grid layer is a loaded layer and the
\* store's grid variable is a variable of that layer.
C19_GridSelectionValid ==
  (component = "v2" /\ load.stage = "ready")
    => \E i \in 1..Len(GRID_LAYERS) :
         /\ GRID_LAYERS[i].id = state.gridLayer
         /\ state.gridVariable \in FieldIds(GRID_LAYERS[i].variables)

\* C20: the selected index is 0 when the active dataset has no features and
\* otherwise lies in 0 .. (number of features - 1).
C20_SelectedIndexInRange ==
  component = "v2" =>
    IF Len(state.features) = 0 THEN state.selectedIndex = 0
    ELSE state.selectedIndex >= 0 /\ state.selectedIndex < Len(state.features)

C20_Witness ==
  /\ component = "v2" /\ map
  /\ lastTrigger = "clickFeature"
  /\ state.siteDataset = "health"
  /\ state.selectedIndex = Len(state.features) - 1
  /\ state.selectedIndex > 0


\* C21: in a session every loader is called at most once, whatever the
\* dataset switches and re-renders, and on the loaded page state.features is
\* the loaded feature sequence of state.siteDataset.
C21_LoadersCalledOnce ==
  /\ \A l \in Loaders : host.calls[l] <= 1
  /\ load.stage = "ready" => state.features = SITE_FEATURES[state.siteDataset]


\* C30: no page is rendered by a script run that starts with the session not
\* authenticated; authentication becomes true only in a run with the login
\* button pressed and the typed password equal to the configured one, and it
\* never becomes false again.
C30_AuthGate ==
  /\ [](~host.authenticated => host.rendered \notin Pages)
  /\ [][/\ ~host.authenticated => host'.rendered \notin Pages
        /\ host.authenticated => host'.authenticated
        /\ (~host.authenticated /\ host'.authenticated)
             => /\ lastTrigger' = "run"
                /\ host'.login_button
                /\ host'.password_input = host.APP_PASSWORD]_vars

C30_Witness ==
  /\ host.authenticated
  /\ host.rendered \in Pages
  /\ host.runs > 1
  /\ host.password_input = host.APP_PASSWORD
  /\ host.APP_PASSWORD # DefaultPassword


C23_GridLegendFollowsOverlay ==
  (component = "v2" /\ load.stage = "ready")
    => /\ ~state.showGrid => (gridOverlayLayer = NoLayer /\ mapGridLegend = HiddenPanel)
       /\ (map /\ state.showGrid /\ ~load.raised)
            => LET off == renderGridOverlay([Env EXCEPT !.state.showGrid = FALSE])
                   on == renderGridOverlay([off EXCEPT !.state.showGrid = TRUE])
                   variable == FindField(FindLayer(state.gridLayer).variables,
                                         state.gridVariable)
               IN /\ off.gridOverlayLayer = NoLayer
                  /\ off.mapGridLegend = HiddenPanel
                  /\ on.state = state
                  /\ on.gridOverlayLayer = gridOverlayLayer
                  /\ on.mapGridLegend = mapGridLegend
                  /\ (gridOverlayLayer # NoLayer) <=> ~mapGridLegend.hidden
                  /\ ~mapGridLegend.hidden => mapGridLegend.variable = variable.label

C23_Witness ==
  /\ component = "v2" /\ map /\ state.showGrid
  /\ lastTrigger = "toggleGrid"
  /\ state.gridLayer # InitialState.gridLayer
  /\ state.useLogScale
  /\ gridOverlayLayer # NoLayer
  /\ ~mapGridLegend.hidden


\* The names of a list of columns, in column order.
NamesOf(cols) == [ i \in 1..Len(cols) |-> cols[i].name ]

\* A column that is entirely text or entirely empty.
NoNumberIn(col) == \A r \in DOMAIN col.cells : to_numeric(col.cells[r]) = Null

\* C24: the variable list of a layer holds exactly the non-key columns of its
\* table with at least one value that survives numeric coercion, the variable
\* selector offers exactly those, and a column entirely of text or entirely
\* empty is never offered.
C24_VariablesAreNumericColumns ==
  (component = "loader" /\ calc.pc = "offered")
    => LET numeric == SelectSeq(calc.table, LAMBDA col :
                        col.name # KeyColumn /\ ~NoNumberIn(col))
       IN /\ GridVariableOptions(calc.layer) = NamesOf(numeric)
          /\ calc.options = NamesOf(numeric)

\* C24 (as the code has it): the variable list holds exactly the columns,
\* other than the key and the columns named Unnamed..., with at least one
\* value that survives numeric coercion in a row that has a key; the variable
\* selector offers exactly those, so a column entirely of text or entirely
\* empty is never offered.
C24_VariablesAreKeyedNumericColumns ==
  (component = "loader" /\ calc.pc = "offered")
    => LET rows == { r \in 1..MaxRows :
                       ColumnNamed(calc.table, KeyColumn).cells[r] # "" }
           numeric == SelectSeq(calc.table, LAMBDA col :
                        /\ col.name # KeyColumn
                        /\ ~StartsWithUnnamed(col.name)
                        /\ \E r \in rows : to_numeric(col.cells[r]) # Null)
       IN /\ GridVariableOptions(calc.layer) = NamesOf(numeric)
          /\ calc.options = NamesOf(numeric)
          /\ \A i \in 1..Len(calc.table) :
               NoNumberIn(calc.table[i])
                 => \A j \in 1..Len(calc.options) : calc.options[j] # calc.table[i].name

C24_Witness ==
  /\ component = "loader" /\ calc.pc = "offered"
  /\ Len(calc.table) = 3
  /\ NoNumberIn(calc.table[2])
  /\ calc.table[2].cells[1] = "n/a"
  /\ calc.options = << calc.table[3].name >>


\* The palettes of a colour field's kind.
MapsOfKind(variable) ==
  IF variable.type = "categorical" THEN COLOR_MAPS.categorical ELSE COLOR_MAPS.continuous

\* C25: while a colour field is active state.colorMap is a palette of the
\* field's kind; a change to a field of the other kind selects the first
\* palette of the new kind, and a change between fields of one kind keeps
\* the palette.
C25_PaletteOfFieldKind ==
  /\ [](component = "v2" /\ getActiveSiteVariable(state) # NullVariable
          => HasMap(MapsOfKind(getActiveSiteVariable(state)), state.colorMap))
  /\ [][(/\ component = "v2"
         /\ getActiveSiteVariable(state) # NullVariable
         /\ getActiveSiteVariable(state') # NullVariable
         /\ lastTrigger' \in {"changeColorField", "changeDataset"})
          => IF getActiveSiteVariable(state').type = getActiveSiteVariable(state).type
             THEN state'.colorMap = state.colorMap
             ELSE state'.colorMap = MapsOfKind(getActiveSiteVariable(state'))[1].id]_vars

C25_Witness ==
  /\ component = "v2"
  /\ lastTrigger = "changeColorField"
  /\ getActiveSiteVariable(state) # NullVariable
  /\ getActiveSiteVariable(state).type = "numeric"
  /\ state.colorMap = COLOR_MAPS.continuous[1].id
  /\ "colorMapOptions" \in effects
  /\ mapLegend # HiddenPanel
  /\ mapLegend.body.kind = "gradient"


\* C26: state.siteVariable is "__none__" or the id of a colour field of the
\* active dataset; a dataset switch keeps the colour field when the new
\* dataset declares a field of that id and resets it to "__none__" otherwise.
C26_SiteVariableValid ==
  /\ [](component = "v2"
          => \/ state.siteVariable = NoneId
             \/ state.siteVariable \in FieldIds(getActiveDataset(state).color_fields))
  /\ [][(component = "v2" /\ lastTrigger' = "changeDataset")
          => state'.siteVariable =
               IF state.siteVariable \in FieldIds(getActiveDataset(state').color_fields)
               THEN state.siteVariable ELSE NoneId]_vars

C26_Witness ==
  /\ component = "v2"
  /\ lastTrigger = "changeDataset"
  /\ state.siteDataset = "education"
  /\ state.siteVariable = "amenity"


\* The markers on the map that are drawn highlighted: the white outline and
\* the larger radius.
HighlightedMarkers ==
  LET baseSize == IF state.markerSize = 0 THEN 3 ELSE state.markerSize
  IN { i \in DOMAIN markersLayer :
         markersLayer[i].color = "#ffffff" /\ markersLayer[i].radius = baseSize + 3 }

\* A feature click or a dataset switch has completed with a map.
AfterSelection ==
  /\ component = "v2"
  /\ map
  /\ ~load.raised
  /\ lastTrigger \in {"clickFeature", "changeDataset"}

\* C27: after a feature click or a dataset switch with a map, the detail
\* panel shows the feature at state.selectedIndex of the active dataset and,
\* with show-sites on, exactly one marker is highlighted: that feature's.
C27_DetailAndHighlightAgree ==
  AfterSelection
    => /\ state.selectedIndex + 1 \in DOMAIN state.features
       /\ detail = [type |-> getActiveDataset(state).label,
                    title |-> <<state.siteDataset, state.selectedIndex>>]
       /\ state.showSites => HighlightedMarkers = {state.selectedIndex + 1}

\* C27 (as the code has it): the same when the active dataset has a feature;
\* for a dataset without features the detail panel reads "No sample data"
\* and no marker is drawn.
C27_DetailAndHighlightAgreeIfAny ==
  AfterSelection
    => IF Len(state.features) > 0
       THEN /\ state.selectedIndex + 1 \in DOMAIN state.features
            /\ detail = [type |-> getActiveDataset(state).label,
                         title |-> <<state.siteDataset, state.selectedIndex>>]
            /\ state.showSites
                 => /\ HighlightedMarkers = {state.selectedIndex + 1}
                    /\ Len(markersLayer) = Len(state.features)
       ELSE /\ detail = [type |-> "Site", title |-> "No sample data"]
            /\ markersLayer = << >>

C27_Witness ==
  /\ AfterSelection
  /\ lastTrigger = "clickFeature"
  /\ state.showSites
  /\ state.selectedIndex = 1
  /\ HighlightedMarkers = {2}
  /\ detail.title = <<state.siteDataset, 1>>


\* C28: without the map library the map area holds at most one fallback
\* message element, on either page, whatever triggers have run.
C28_AtMostOneFallback ==
  ~leaflet => (fallbacks <= 1 /\ react.fallbacks <= 1)


SiteTriggerNames ==
  {"changeDataset", "changeColorField", "changePalette", "toggleSites", "markerSize",
   "clickFeature"}

GridTriggerNames == {"changeGridLayer", "changeGridVariable", "toggleGrid", "toggleLogScale"}

\* The fill colour of every grid cell on the map.
GridCellColours(overlay) ==
  IF overlay = NoLayer THEN << >>
  ELSE [cell \in DOMAIN overlay.styles |->
          <<overlay.styles[cell].fillColor, overlay.styles[cell].fillOpacity>>]

\* C29: a site trigger changes neither the grid layer, the grid variable, the
\* log-scale flag, show-grid, the weights nor the colour of any grid cell; a
\* grid trigger changes neither the dataset, the colour field, the palette,
\* the marker size, show-sites, the selected index nor the weights.
C29_SiteAndGridIndependent ==
  [][component = "v2"
       => /\ lastTrigger' \in SiteTriggerNames
               => /\ state'.gridLayer = state.gridLayer
                  /\ state'.gridVariable = state.gridVariable
                  /\ state'.useLogScale = state.useLogScale
                  /\ state'.showGrid = state.showGrid
                  /\ state'.weights = state.weights
                  /\ GridCellColours(gridOverlayLayer') = GridCellColours(gridOverlayLayer)
          /\ lastTrigger' \in GridTriggerNames
               => /\ state'.siteDataset = state.siteDataset
                  /\ state'.siteVariable = state.siteVariable
                  /\ state'.colorMap = state.colorMap
                  /\ state'.markerSize = state.markerSize
                  /\ state'.showSites = state.showSites
                  /\ state'.selectedIndex = state.selectedIndex
                  /\ state'.features = state.features
                  /\ state'.weights = state.weights]_vars

====
